---- MODULE Spec2Model ----
(***************************************************************************)
(* A model of stream_checker's process runner (run_subprocess_safe in      *)
(* stream_checker/utils/subprocess_utils.py) and of the audio pipeline     *)
(* orchestrator (AudioAnalyzer.analyze in                                  *)
(* stream_checker/core/audio_analysis.py).                                 *)
(*                                                                         *)
(* Python values: None is the empty sequence and a present value v the     *)
(* one-element sequence <<v>>; a dict is a function on its keys; an error  *)
(* text is the sequence of its words, so that "the text contains the word  *)
(* timeout" is decided on the text the code builds.                        *)
(***************************************************************************)
EXTENDS Integers, Sequences, FiniteSets, TLC

\* ------------------------------------------------------------------ bounds

\* the timeout argument ranges over 1..MaxTimeout seconds
MaxTimeout == 2
\* seconds a spawned worker may take from start() until it runs its target
MaxStartDelay == 7

\* ------------------------------------------------------- program constants

\* process_obj.join(timeout=timeout + 5.0)
JoinSlack == 5
\* process_obj.join(timeout=2.0) after terminate()
TermGrace == 2
\* process_obj.join(timeout=1.0) in the finally block
CleanupGrace == 1

\* ------------------------------------------------------------ Python values

None == <<>>
Some(x) == <<x>>
IsNone(o) == o = <<>>
Val(o) == o[1]

\* dict.update / {**a, **b}: the keys of b win
Update(a, b) ==
  [k \in (DOMAIN a) \cup (DOMAIN b) |-> IF k \in DOMAIN b THEN b[k] ELSE a[k]]

\* 'timeout' in error.lower(), on the words of the text
MentionsTimeout(text) == \E i \in DOMAIN text : text[i] = "timeout"

\* ------------------------------------------------ _classify_returncode

signal_names(n) ==
  CASE n = 1 -> "SIGHUP"
    [] n = 2 -> "SIGINT"
    [] n = 3 -> "SIGQUIT"
    [] n = 6 -> "SIGABRT"
    [] n = 9 -> "SIGKILL"
    [] n = 11 -> "SIGSEGV"
    [] n = 15 -> "SIGTERM"
    [] OTHER -> "SIG" \o ToString(n)

NoSignal == [signal_num |-> None, signal_name |-> None, is_signal_kill |-> FALSE]

\* a faulty variant that knows the negative convention only
_classify_returncode_negative_only(returncode) ==
  IF IsNone(returncode) \/ Val(returncode) >= 0 THEN NoSignal
  ELSE [signal_num |-> Some(-Val(returncode)),
        signal_name |-> Some(signal_names(-Val(returncode))),
        is_signal_kill |-> TRUE]

\* lines 177-223
_classify_returncode(returncode) ==
  IF IsNone(returncode) THEN NoSignal
  ELSE LET rc == Val(returncode)
           signal_num == IF rc < 0 THEN Some(-rc)
                         ELSE IF rc >= 128 THEN Some(rc - 128)
                         ELSE None
       IN IF ~IsNone(signal_num)
          THEN [signal_num |-> signal_num,
                signal_name |-> Some(signal_names(Val(signal_num))),
                is_signal_kill |-> TRUE]
          ELSE NoSignal

\* ------------------------------------------------- the external command

\* What a launched command does: it exits with a return code before the
\* timeout, or it is still running when the timeout elapses; big says that
\* its captured output exceeds the capacity of an OS pipe.
ReturnCodes == {0, 1, -11, 139}
CmdBehaviours ==
  [kind : {"exits"}, rc : ReturnCodes, big : BOOLEAN]
    \cup [kind : {"hangs"}, rc : {0}, big : {FALSE}]

\* exit codes of a worker process that dies on its own (an uncaught error
\* at start-up, a segmentation fault)
CrashCodes == {1, -11}

\* ------------------------------------------------------- result records

\* _result_stdout_to_file(path, size)
_result_stdout_to_file(path, size) ==
  [stdout |-> None, stdout_path |-> path, stdout_size |-> size]

\* the dict returned after subprocess.run returned, on the direct paths
DirectSuccessResult(rc, to_file, path) ==
  IF to_file
  THEN Update(Update([returncode |-> Some(rc), stderr |-> Some("bytes"),
                      success |-> TRUE],
                     _result_stdout_to_file(path, 1)),
              _classify_returncode(Some(rc)))
  ELSE Update([returncode |-> Some(rc), stdout |-> Some("bytes"),
               stderr |-> Some("bytes"), success |-> TRUE],
              _classify_returncode(Some(rc)))

\* the dict returned on subprocess.TimeoutExpired, on the direct paths
DirectTimeoutResult(t, to_file, path) ==
  IF to_file
  THEN Update(Update([returncode |-> None, stderr |-> None, success |-> FALSE,
                      error |-> <<"timeout">>, timeout |-> t],
                     _result_stdout_to_file(path, 0)),
              NoSignal)
  ELSE Update([returncode |-> None, stdout |-> None, stderr |-> None,
               success |-> FALSE, error |-> <<"timeout">>, timeout |-> t],
              NoSignal)

\* the dict returned on any other exception of subprocess.run (str(e))
DirectErrorResult(e, to_file, path) ==
  IF to_file
  THEN Update(Update([returncode |-> None, stderr |-> None, success |-> FALSE,
                      error |-> <<e>>],
                     _result_stdout_to_file(path, 0)),
              NoSignal)
  ELSE Update([returncode |-> None, stdout |-> None, stderr |-> None,
               success |-> FALSE, error |-> <<e>>],
              NoSignal)

\* the dicts the worker sends: they carry no signal fields
WorkerSuccessResult(rc, to_file, path) ==
  IF to_file
  THEN [returncode |-> Some(rc), stdout |-> None, stdout_path |-> path,
        stdout_size |-> 1, stderr |-> Some("bytes"), success |-> TRUE]
  ELSE [returncode |-> Some(rc), stdout |-> Some("bytes"),
        stderr |-> Some("bytes"), success |-> TRUE]

\* a worker that reports the expired timeout without the word "timeout"
WorkerTimeoutResultTimedOut(t, to_file, path) ==
  IF to_file
  THEN [returncode |-> None, stdout |-> None, stdout_path |-> path,
        stdout_size |-> 0, stderr |-> None, success |-> FALSE,
        error |-> <<"timed", "out">>, timeout |-> t]
  ELSE [returncode |-> None, stdout |-> None, stderr |-> None,
        success |-> FALSE, error |-> <<"timed", "out">>, timeout |-> t]

WorkerTimeoutResult(t, to_file, path) ==
  IF to_file
  THEN [returncode |-> None, stdout |-> None, stdout_path |-> path,
        stdout_size |-> 0, stderr |-> None, success |-> FALSE,
        error |-> <<"timeout">>, timeout |-> t]
  ELSE [returncode |-> None, stdout |-> None, stderr |-> None,
        success |-> FALSE, error |-> <<"timeout">>, timeout |-> t]

WorkerErrorResult(e, to_file, path) ==
  IF to_file
  THEN [returncode |-> None, stdout |-> None, stdout_path |-> path,
        stdout_size |-> 0, stderr |-> None, success |-> FALSE, error |-> <<e>>]
  ELSE [returncode |-> None, stdout |-> None, stderr |-> None,
        success |-> FALSE, error |-> <<e>>]

\* _macos_error(**kwargs): the base dict has no returncode key
_macos_error(kwargs, to_file, path) ==
  LET base == [stdout |-> None, stderr |-> None, success |-> FALSE,
               signal_num |-> None, signal_name |-> None,
               is_signal_kill |-> FALSE]
      withfile == IF to_file /\ ~IsNone(path)
                  THEN Update(base, [stdout_path |-> path, stdout_size |-> 0])
                  ELSE base
  IN Update(withfile, kwargs)

WorkerTimeoutError(to_file, path) ==
  _macos_error([error |-> <<"multiprocessing", "worker", "timeout">>],
               to_file, path)

WorkerCrashedError(exitcode, to_file, path) ==
  _macos_error(
    Update([error |-> <<"multiprocessing", "worker", "crashed", "with",
                        "exitcode", ToString(exitcode)>>],
           _classify_returncode(Some(exitcode))),
    to_file, path)

NoResultError(to_file, path) ==
  _macos_error([error |-> <<"no", "result", "from", "multiprocessing",
                            "worker">>], to_file, path)

\* the dict of the outer except clause (str(e))
OuterExceptResult(e) ==
  [returncode |-> None, stdout |-> None, stderr |-> None, success |-> FALSE,
   error |-> <<e>>, signal_num |-> None, signal_name |-> None,
   is_signal_kill |-> FALSE]

\* parent_conn.poll() / recv() / "if result:" / result.update(signal_info)
ReceiveResult(data, to_file, path) ==
  IF ~IsNone(data)
  THEN Update(Val(data), _classify_returncode(Val(data).returncode))
  ELSE NoResultError(to_file, path)

\* =================================================================
\* run_subprocess_safe: one call, the worker it spawns and the command
\* =================================================================

VARIABLES
  platform_system,   \* platform.system() of the host
  caller,            \* the process that calls: "main", "pipe_worker", "helper"
  helper_env,        \* os.environ['STREAM_CHECKER_SUBPROCESS_HELPER'] == '1' there
  worker_depth,      \* isolated workers nested around the code now running
  rs_pc,             \* the caller's position in run_subprocess_safe
  timeout,           \* the timeout argument, in seconds
  stdout_to_file,    \* the stdout_to_file argument
  stdout_file_path,  \* the temp file of mkstemp, or None
  cmd,               \* the behaviour of the launched command
  cmd_state,         \* "none", "running", "exited", "killed"
  cmd_deadline,      \* when subprocess.run raises TimeoutExpired
  parent_conn,       \* the caller's handles: "None", "open", "closed"
  child_conn,
  process_obj,       \* "None", "created" (never started), "started"
  pipe_data,         \* what the worker has sent and the caller not yet read
  w_state,           \* the worker: "none", "starting", "running", "sending", "exited"
  w_exitcode,        \* process_obj.exitcode
  w_ready_at,        \* when the spawned interpreter reaches the target
  w_result,          \* the worker's local variable result
  now,               \* seconds since the call
  join_deadline,     \* when the caller's current join(timeout=...) gives up
  signals,           \* what the caller has sent to the worker, in order
  timed_out,         \* subprocess.run raised TimeoutExpired for the command
  rs_result          \* the dict the call returns

rsVars ==
  <<platform_system, caller, helper_env, worker_depth, rs_pc, timeout,
    stdout_to_file, stdout_file_path, cmd, cmd_state, cmd_deadline,
    parent_conn, child_conn, process_obj, pipe_data, w_state, w_exitcode,
    w_ready_at, w_result, now, join_deadline, signals, timed_out, rs_result>>

\* AudioAnalyzer.analyze: one call
VARIABLES
  a_pc,                  \* the caller's position in analyze
  sample_duration,       \* self.sample_duration
  silence_threshold_db,  \* self.silence_threshold_db
  result,                \* the dict analyze builds and returns
  audio_file,            \* what _download_audio_sample returned
  audio_data,            \* what _load_audio_raw returned as samples
  temp_exists,           \* the temp file of mkstemp is on disk
  temp_size,             \* its size: 0 or 1 (not empty)
  temp_created,          \* calls of mkstemp
  temp_unlinks,          \* calls of os.unlink that removed the temp file
  run_outcome,           \* how the ffmpeg invocation of the stage ended
  stages,                \* stages and passes started, in order
  passes_done,           \* analyzer passes that returned
  attempts               \* the download commands run, in order

anVars ==
  <<a_pc, sample_duration, silence_threshold_db, result, audio_file,
    audio_data, temp_exists, temp_size, temp_created, temp_unlinks,
    run_outcome, stages, passes_done, attempts>>

\* One call of a function of the program that has no state of its own
VARIABLES
  call,   \* the function called and its arguments
  ret     \* what the call returned

fnVars == <<call, ret>>

\* run_process_with_queue: one call with its worker process and its queue.
VARIABLES
  pq_pc,          \* the caller's position: "call", "join", "finally", "done"
  pq_target,      \* what the target function does once started
  pq_worker,      \* process_obj: its state, its exitcode, whether it has put
  pq_queue,       \* the items of mp_queue
  pq_ret          \* the tuple returned

pqVars == <<pq_pc, pq_target, pq_worker, pq_queue, pq_ret>>

\* Two analyze calls running at once, with the temp directory and the
\* process table they share.
VARIABLES
  cc_pc,            \* each call's position in analyze
  cc_url,           \* each call's url
  cc_temp_path,     \* each call's temp_path / audio_file, None before mkstemp
  cc_worker,        \* each call's process_obj, the pid of its child, or None
  cc_audio,         \* each call's audio_data: the stream it was decoded from
  cc_result,        \* the record each call returns
  files,            \* the temp directory: at each path no file, or a file
                    \* with the call that created it and its content
  procs,            \* the process table: at each pid no process, or a child
                    \* with the call that started it
  foreign_file_op,  \* some call has read, written or unlinked a file that
                    \* another call created
  foreign_kill      \* some call has terminated a child of another call

ccVars == <<cc_pc, cc_url, cc_temp_path, cc_worker, cc_audio, cc_result,
            files, procs, foreign_file_op, foreign_kill>>

\* One stream check (stream_checker.py main) and the external commands it
\* launches.
VARIABLES
  sc_pc,         \* the site main has reached, "idle" before and "done" after
  sc_index,      \* the index of the path tried by a lookup loop
  sc_phase,      \* args.phase: phases 1..sc_phase are run
  sc_worker,     \* the process started for the site, None without one
  sc_launches    \* the subprocess.run / subprocess.Popen calls made so far:
                 \* the site, whether in the main process, and whether
                 \* STREAM_CHECKER_SUBPROCESS_HELPER was '1' in the process

scVars == <<sc_pc, sc_index, sc_phase, sc_worker, sc_launches>>

\* The multiprocessing start method and the copies of ensure_spawn_method.
VARIABLES
  sm_method,     \* the start method of multiprocessing, None while not fixed
  sm_flag,       \* _mp_start_method_set of each module
  sm_pc,         \* each copy's position: "out", "read" (before its try), "set"
  sm_current,    \* current_method of the call in progress
  sm_returned,   \* a call of the copy has returned
  sm_later       \* a call entered after one had returned has read or
                 \* changed the start method

smVars == <<sm_method, sm_flag, sm_pc, sm_current, sm_returned, sm_later>>

NoCmd == [kind |-> "none", rc |-> 0, big |-> FALSE]

Timeouts == 1..MaxTimeout

RsInit ==
  /\ platform_system \in {"Darwin", "Linux"}
  /\ caller = "main"
  /\ helper_env = FALSE
  /\ worker_depth = 0
  /\ rs_pc = "idle"
  /\ timeout = 1
  /\ stdout_to_file = FALSE
  /\ stdout_file_path = None
  /\ cmd = NoCmd
  /\ cmd_state = "none"
  /\ cmd_deadline = 0
  /\ parent_conn = "None"
  /\ child_conn = "None"
  /\ process_obj = "None"
  /\ pipe_data = None
  /\ w_state = "none"
  /\ w_exitcode = None
  /\ w_ready_at = 0
  /\ w_result = None
  /\ now = 0
  /\ join_deadline = 0
  /\ signals = <<>>
  /\ timed_out = FALSE
  /\ rs_result = None

workerVars == <<w_state, w_exitcode, w_ready_at, w_result>>
pipeVars == <<parent_conn, child_conn, process_obj, pipe_data>>
cmdVars == <<cmd, cmd_state, cmd_deadline>>
callVars == <<platform_system, caller, helper_env, timeout, stdout_to_file,
              stdout_file_path>>

\* Lines 265-278 and 368: mkstemp when stdout_to_file, then the choice of the
\* path: the marker, else the platform.
Enter(who, marker, depth, t, to_file) ==
  /\ rs_pc = "idle"
  /\ caller' = who
  /\ helper_env' = marker
  /\ worker_depth' = depth
  /\ timeout' = t
  /\ stdout_to_file' = to_file
  /\ stdout_file_path' = IF to_file THEN Some("stdout.bin") ELSE None
  /\ rs_pc' = IF marker THEN "direct"
              ELSE IF platform_system = "Darwin" THEN "spawn"
              ELSE "direct"
  /\ UNCHANGED <<anVars, fnVars, pqVars, ccVars, scVars, smVars, platform_system, cmdVars, pipeVars, workerVars, now,
                 join_deadline, signals, timed_out, rs_result>>

\* The main process calls run_subprocess_safe: no worker around it, no marker.
CallFromMain ==
  \E t \in Timeouts, f \in BOOLEAN : Enter("main", FALSE, 0, t, f)

\* _run_subprocess_worker_pipe, the target of a worker that
\* run_process_with_pipe spawned, calls run_subprocess_safe(cmd, timeout=...,
\* text=False). Nothing sets the marker in that worker: its os.environ is the
\* one of the process that spawned it.
PipeWorkerMarker == FALSE
CallFromPipeWorker ==
  \E t \in Timeouts : Enter("pipe_worker", PipeWorkerMarker, 1, t, FALSE)

\* A process whose environment carries the marker: the worker of
\* run_subprocess_safe sets it in os.environ and in the env of the command it
\* launches (tests/test_100_streams.py launches stream_checker.py that way).
\* Such a worker exists on macOS only.
CallInHelper ==
  /\ platform_system = "Darwin"
  /\ \E t \in Timeouts, f \in BOOLEAN : Enter("helper", TRUE, 1, t, f)

\* ---- the direct paths (lines 278-366 in a helper, 465-553 off macOS)

\* subprocess.run starts the command
DirectLaunch ==
  /\ rs_pc = "direct"
  /\ \E b \in CmdBehaviours : cmd' = b
  /\ cmd_state' = "running"
  /\ rs_pc' = "direct_wait"
  /\ UNCHANGED <<anVars, fnVars, pqVars, ccVars, scVars, smVars, callVars, worker_depth, cmd_deadline, pipeVars, workerVars,
                 now, join_deadline, signals, timed_out, rs_result>>

\* subprocess.run raises before a command exists (FileNotFoundError, ...)
DirectLaunchFails ==
  /\ rs_pc = "direct"
  /\ rs_result' = Some(DirectErrorResult("OSError", stdout_to_file,
                                         stdout_file_path))
  /\ rs_pc' = "returned"
  /\ UNCHANGED <<anVars, fnVars, pqVars, ccVars, scVars, smVars, callVars, worker_depth, cmdVars, pipeVars, workerVars, now,
                 join_deadline, signals, timed_out>>

\* the command exits and subprocess.run returns
DirectExit ==
  /\ rs_pc = "direct_wait"
  /\ cmd.kind = "exits"
  /\ cmd_state' = "exited"
  /\ rs_result' = Some(DirectSuccessResult(cmd.rc, stdout_to_file,
                                           stdout_file_path))
  /\ rs_pc' = "returned"
  /\ UNCHANGED <<anVars, fnVars, pqVars, ccVars, scVars, smVars, callVars, worker_depth, cmd, cmd_deadline, pipeVars,
                 workerVars, now, join_deadline, signals, timed_out>>

\* the timeout elapses: subprocess.run kills the command, waits for it and
\* raises TimeoutExpired
DirectTimeout ==
  /\ rs_pc = "direct_wait"
  /\ cmd.kind = "hangs"
  /\ cmd_state' = "killed"
  /\ timed_out' = TRUE
  /\ rs_result' = Some(DirectTimeoutResult(timeout, stdout_to_file,
                                           stdout_file_path))
  /\ rs_pc' = "returned"
  /\ UNCHANGED <<anVars, fnVars, pqVars, ccVars, scVars, smVars, callVars, worker_depth, cmd, cmd_deadline, pipeVars,
                 workerVars, now, join_deadline, signals>>

\* ---- the isolated-worker path, the caller's side (lines 368-464)

\* multiprocessing.Pipe(duplex=False)
MacPipe ==
  /\ rs_pc = "spawn"
  /\ parent_conn' = "open"
  /\ child_conn' = "open"
  /\ rs_pc' = "start"
  /\ UNCHANGED <<anVars, fnVars, pqVars, ccVars, scVars, smVars, callVars, worker_depth, cmdVars, process_obj, pipe_data,
                 workerVars, now, join_deadline, signals, timed_out, rs_result>>

\* Pipe() raises (no file descriptor left): the outer except clause
MacPipeFails ==
  /\ rs_pc = "spawn"
  /\ rs_pc' = "except"
  /\ UNCHANGED <<anVars, fnVars, pqVars, ccVars, scVars, smVars, callVars, worker_depth, cmdVars, pipeVars, workerVars, now,
                 join_deadline, signals, timed_out, rs_result>>

\* Process(...), process_obj.start(), child_conn.close(), and the caller
\* enters process_obj.join(timeout=timeout + 5.0)
MacStart ==
  /\ rs_pc = "start"
  /\ process_obj' = "started"
  /\ worker_depth' = worker_depth + 1
  /\ w_state' = "starting"
  /\ \E d \in 0..MaxStartDelay : w_ready_at' = now + d
  /\ child_conn' = "closed"
  /\ join_deadline' = now + timeout + JoinSlack
  /\ rs_pc' = "join"
  /\ UNCHANGED <<anVars, fnVars, pqVars, ccVars, scVars, smVars, callVars, cmdVars, parent_conn, pipe_data, w_exitcode,
                 w_result, now, signals, timed_out, rs_result>>

\* Process(...) or start() raises (the process table is full, the arguments
\* do not pickle): control leaves the try block before child_conn.close()
MacStartFails ==
  /\ rs_pc = "start"
  /\ process_obj' \in {"None", "created"}
  /\ rs_pc' = "except"
  /\ UNCHANGED <<anVars, fnVars, pqVars, ccVars, scVars, smVars, callVars, worker_depth, cmdVars, parent_conn, child_conn,
                 pipe_data, workerVars, now, join_deadline, signals, timed_out,
                 rs_result>>

is_alive == w_state \in {"starting", "running", "sending"}

\* The same step with a join() that has no timeout: it returns only once the
\* worker has exited.
JoinReturnUnbounded ==
  /\ rs_pc = "join"
  /\ ~is_alive
  /\ rs_result' =
       IF Val(w_exitcode) # 0
       THEN Some(WorkerCrashedError(Val(w_exitcode), stdout_to_file,
                                    stdout_file_path))
       ELSE Some(ReceiveResult(pipe_data, stdout_to_file, stdout_file_path))
  /\ pipe_data' = IF Val(w_exitcode) # 0 THEN pipe_data ELSE None
  /\ rs_pc' = "finally"
  /\ UNCHANGED <<signals, join_deadline>>
  /\ UNCHANGED <<anVars, fnVars, pqVars, ccVars, scVars, smVars, callVars, worker_depth, cmdVars, parent_conn, child_conn,
                 process_obj, workerVars, now, timed_out>>

\* join(timeout=timeout + 5.0) returns: the worker has exited or the wait
\* expired. Lines 410-433.
JoinReturn ==
  /\ rs_pc = "join"
  /\ ~is_alive \/ now >= join_deadline
  /\ IF is_alive
     THEN /\ signals' = Append(signals, "terminate")
          /\ join_deadline' = now + TermGrace
          /\ rs_pc' = "join_term"
          /\ UNCHANGED <<rs_result, pipe_data>>
     ELSE /\ rs_result' =
               IF Val(w_exitcode) # 0
               THEN Some(WorkerCrashedError(Val(w_exitcode), stdout_to_file,
                                            stdout_file_path))
               ELSE Some(ReceiveResult(pipe_data, stdout_to_file,
                                       stdout_file_path))
          /\ pipe_data' = IF Val(w_exitcode) # 0 THEN pipe_data ELSE None
          /\ rs_pc' = "finally"
          /\ UNCHANGED <<signals, join_deadline>>
  /\ UNCHANGED <<anVars, fnVars, pqVars, ccVars, scVars, smVars, callVars, worker_depth, cmdVars, parent_conn, child_conn,
                 process_obj, workerVars, now, timed_out>>

\* The same step with kill() sent when the wait ends, whether or not the
\* worker is still alive.
JoinTermReturnAlwaysKills ==
  /\ rs_pc \in {"join_term", "fin_term"}
  /\ ~is_alive \/ now >= join_deadline
  /\ signals' = Append(signals, "kill")
  /\ rs_pc' = IF rs_pc = "join_term" THEN "join_kill" ELSE "fin_kill"
  /\ UNCHANGED rs_result
  /\ UNCHANGED <<anVars, fnVars, pqVars, ccVars, scVars, smVars, callVars, worker_depth, cmdVars, pipeVars, workerVars, now,
                 join_deadline, timed_out>>

\* join(timeout=...) after terminate() returns: kill() if the worker is still
\* alive. Lines 412-416 (grace 2.0, then the error dict) and 459-462 (grace
\* 1.0, in the finally block).
JoinTermReturn ==
  /\ rs_pc \in {"join_term", "fin_term"}
  /\ ~is_alive \/ now >= join_deadline
  /\ IF is_alive
     THEN /\ signals' = Append(signals, "kill")
          /\ rs_pc' = IF rs_pc = "join_term" THEN "join_kill" ELSE "fin_kill"
          /\ UNCHANGED rs_result
     ELSE /\ rs_result' =
               IF rs_pc = "join_term"
               THEN Some(WorkerTimeoutError(stdout_to_file, stdout_file_path))
               ELSE rs_result
          /\ rs_pc' = IF rs_pc = "join_term" THEN "finally" ELSE "returned"
          /\ UNCHANGED signals
  /\ UNCHANGED <<anVars, fnVars, pqVars, ccVars, scVars, smVars, callVars, worker_depth, cmdVars, pipeVars, workerVars, now,
                 join_deadline, timed_out>>

\* join() without a timeout after kill() returns once the worker is dead
JoinKillReturn ==
  /\ rs_pc \in {"join_kill", "fin_kill"}
  /\ ~is_alive
  /\ rs_result' =
       IF rs_pc = "join_kill"
       THEN Some(WorkerTimeoutError(stdout_to_file, stdout_file_path))
       ELSE rs_result
  /\ rs_pc' = IF rs_pc = "join_kill" THEN "finally" ELSE "returned"
  /\ UNCHANGED <<anVars, fnVars, pqVars, ccVars, scVars, smVars, callVars, worker_depth, cmdVars, pipeVars, workerVars, now,
                 join_deadline, signals, timed_out>>

\* the outer "except Exception as e" (lines 435-446)
MacExcept ==
  /\ rs_pc = "except"
  /\ rs_result' = Some(OuterExceptResult("OSError"))
  /\ rs_pc' = "finally"
  /\ UNCHANGED <<anVars, fnVars, pqVars, ccVars, scVars, smVars, callVars, worker_depth, cmdVars, pipeVars, workerVars, now,
                 join_deadline, signals, timed_out>>

\* the finally block (lines 448-464): parent_conn.close() when parent_conn is
\* set; terminate() when process_obj is set and still alive
MacFinally ==
  /\ rs_pc = "finally"
  /\ parent_conn' = IF parent_conn = "open" THEN "closed" ELSE parent_conn
  /\ IF process_obj = "started" /\ is_alive
     THEN /\ signals' = Append(signals, "terminate")
          /\ join_deadline' = now + CleanupGrace
          /\ rs_pc' = "fin_term"
     ELSE /\ rs_pc' = "returned"
          /\ UNCHANGED <<signals, join_deadline>>
  /\ UNCHANGED <<anVars, fnVars, pqVars, ccVars, scVars, smVars, callVars, worker_depth, cmdVars, child_conn, process_obj,
                 pipe_data, workerVars, now, timed_out, rs_result>>

\* ---- the worker: _subprocess_worker_pipe and
\* ---- _subprocess_worker_stdout_to_file (lines 53-174)

\* The spawned interpreter reaches the target, which sets the marker and has
\* subprocess.run start the command with timeout=timeout.
WorkerLaunch ==
  /\ w_state = "starting"
  /\ now >= w_ready_at
  /\ \E b \in CmdBehaviours : cmd' = b
  /\ cmd_state' = "running"
  /\ cmd_deadline' = now + timeout
  /\ w_state' = "running"
  /\ UNCHANGED <<anVars, fnVars, pqVars, ccVars, scVars, smVars, callVars, worker_depth, rs_pc, pipeVars, w_exitcode,
                 w_ready_at, w_result, now, join_deadline, signals, timed_out,
                 rs_result>>

\* subprocess.run raises before a command exists: "except Exception"
WorkerLaunchFails ==
  /\ w_state = "starting"
  /\ now >= w_ready_at
  /\ w_result' = Some(WorkerErrorResult("OSError", stdout_to_file,
                                        stdout_file_path))
  /\ w_state' = "sending"
  /\ UNCHANGED <<anVars, fnVars, pqVars, ccVars, scVars, smVars, callVars, worker_depth, rs_pc, cmdVars, pipeVars, w_exitcode,
                 w_ready_at, now, join_deadline, signals, timed_out, rs_result>>

\* the command exits within the timeout and subprocess.run returns
WorkerCmdExit ==
  /\ w_state = "running"
  /\ cmd.kind = "exits"
  /\ cmd_state' = "exited"
  /\ w_result' = Some(WorkerSuccessResult(cmd.rc, stdout_to_file,
                                          stdout_file_path))
  /\ w_state' = "sending"
  /\ UNCHANGED <<anVars, fnVars, pqVars, ccVars, scVars, smVars, callVars, worker_depth, rs_pc, cmd, cmd_deadline, pipeVars,
                 w_exitcode, w_ready_at, now, join_deadline, signals,
                 timed_out, rs_result>>

\* the timeout elapses in the worker: subprocess.run kills the command, waits
\* for it and raises TimeoutExpired
WorkerCmdTimeout ==
  /\ w_state = "running"
  /\ cmd.kind = "hangs"
  /\ now >= cmd_deadline
  /\ cmd_state' = "killed"
  /\ timed_out' = TRUE
  /\ w_result' = Some(WorkerTimeoutResult(timeout, stdout_to_file,
                                          stdout_file_path))
  /\ w_state' = "sending"
  /\ UNCHANGED <<anVars, fnVars, pqVars, ccVars, scVars, smVars, callVars, worker_depth, rs_pc, cmd, cmd_deadline, pipeVars,
                 w_exitcode, w_ready_at, now, join_deadline, signals,
                 rs_result>>

\* conn.send(result) writes the pickled dict into the pipe. The caller reads
\* only after join() returned, so a dict larger than the pipe's buffer keeps
\* send() blocked for as long as the worker lives.
SendBlocks == cmd.big /\ ~IsNone(Val(w_result).stdout)

\* finally: conn.send(result); conn.close(); the target returns, exit code 0
WorkerSend ==
  /\ w_state = "sending"
  /\ ~SendBlocks
  /\ pipe_data' = w_result
  /\ w_state' = "exited"
  /\ w_exitcode' = Some(0)
  /\ UNCHANGED <<anVars, fnVars, pqVars, ccVars, scVars, smVars, callVars, worker_depth, rs_pc, cmdVars, parent_conn,
                 child_conn, process_obj, w_ready_at, w_result, now,
                 join_deadline, signals, timed_out, rs_result>>

\* The worker dies on its own, while the interpreter starts or while it waits
\* in subprocess.run before the timeout is due. A command it had started
\* keeps running: nobody is left to wait for it.
WorkerCrash ==
  /\ \/ w_state = "starting"
     \/ w_state = "running" /\ now < cmd_deadline
  /\ \E code \in CrashCodes : w_exitcode' = Some(code)
  /\ w_state' = "exited"
  /\ UNCHANGED <<anVars, fnVars, pqVars, ccVars, scVars, smVars, callVars, worker_depth, rs_pc, cmdVars, pipeVars, w_ready_at,
                 w_result, now, join_deadline, signals, timed_out, rs_result>>

\* The worker dies of the signal the caller sent: terminate() is SIGTERM,
\* kill() is SIGKILL; the target installs no handler and nothing runs in the
\* worker after the signal, so a command it had started is left running.
SignalExitcode(sig) == IF sig = "kill" THEN -9 ELSE -15
WorkerSignalled ==
  /\ is_alive
  /\ signals # <<>>
  /\ w_exitcode' = Some(SignalExitcode(signals[Len(signals)]))
  /\ w_state' = "exited"
  /\ UNCHANGED <<anVars, fnVars, pqVars, ccVars, scVars, smVars, callVars, worker_depth, rs_pc, cmdVars, pipeVars, w_ready_at,
                 w_result, now, join_deadline, signals, timed_out, rs_result>>

\* One second passes while the caller is blocked in a join with a timeout.
\* Time does not pass a moment at which the worker has something due: the
\* interpreter is ready, the command's timeout is due, a command that exits
\* in time has one second left, or an unblocked send is pending.
Tick ==
  /\ rs_pc \in {"join", "join_term", "fin_term"}
  /\ is_alive
  /\ now < join_deadline
  /\ w_state = "starting" => now < w_ready_at
  /\ w_state = "running" /\ cmd.kind = "hangs" => now < cmd_deadline
  /\ w_state = "running" /\ cmd.kind = "exits" => now + 1 < cmd_deadline
  /\ w_state = "sending" => SendBlocks
  /\ now' = now + 1
  /\ UNCHANGED <<anVars, fnVars, pqVars, ccVars, scVars, smVars, callVars, worker_depth, rs_pc, cmdVars, pipeVars, workerVars,
                 join_deadline, signals, timed_out, rs_result>>

RsNext ==
  \/ CallFromMain
  \/ CallFromPipeWorker
  \/ CallInHelper
  \/ DirectLaunch
  \/ DirectLaunchFails
  \/ DirectExit
  \/ DirectTimeout
  \/ MacPipe
  \/ MacPipeFails
  \/ MacStart
  \/ MacStartFails
  \/ JoinReturn
  \/ JoinTermReturn
  \/ JoinKillReturn
  \/ MacExcept
  \/ MacFinally
  \/ WorkerLaunch
  \/ WorkerLaunchFails
  \/ WorkerCmdExit
  \/ WorkerCmdTimeout
  \/ WorkerSend
  \/ WorkerCrash
  \/ WorkerSignalled
  \/ Tick

\* =================================================================
\* AudioAnalyzer.analyze (stream_checker/core/audio_analysis.py)
\* =================================================================

\* sample_duration ranges over 1..MaxSampleDuration
MaxSampleDuration == 2
SampleDurations == 1..MaxSampleDuration
Thresholds == {-40, 0}

DefaultSilence(th) ==
  [silence_detected |-> FALSE, silence_percentage |-> 0,
   silence_periods |-> <<>>, threshold_db |-> th]
DefaultErrors ==
  [error_detected |-> FALSE, error_messages |-> <<>>,
   repetitive_pattern_detected |-> FALSE]
DefaultQuality ==
  [average_volume_db |-> None, peak_volume_db |-> None,
   dynamic_range_db |-> None, clipping_detected |-> FALSE]

\* the dict of lines 136-155
DefaultResult(d, th) ==
  [sample_duration_seconds |-> d,
   silence_detection |-> DefaultSilence(th),
   error_detection |-> DefaultErrors,
   audio_quality |-> DefaultQuality]

DownloadFailed == "Failed to download audio sample"
LoadFailed == "Failed to load audio data"

\* result["error"] = ...
SetError(res, text) == Update(res, [error |-> text])

AnInit ==
  /\ a_pc = "idle"
  /\ sample_duration = 1
  /\ silence_threshold_db = -40
  /\ result = None
  /\ audio_file = None
  /\ audio_data = None
  /\ temp_exists = FALSE
  /\ temp_size = 0
  /\ temp_created = 0
  /\ temp_unlinks = 0
  /\ run_outcome = [kind |-> "none"]
  /\ stages = <<>>
  /\ passes_done = {}
  /\ attempts = <<>>

\* analyze(url) is called on an analyzer built with valid settings: the
\* result dict is initialised and _download_audio_sample(url) is entered.
AnalyzeCall ==
  /\ a_pc = "idle"
  /\ \E d \in SampleDurations, th \in Thresholds :
       /\ sample_duration' = d
       /\ silence_threshold_db' = th
       /\ result' = Some(DefaultResult(d, th))
  /\ stages' = <<"acquire">>
  /\ a_pc' = "dl_find"
  /\ UNCHANGED <<rsVars, fnVars, pqVars, ccVars, scVars, smVars, attempts, audio_file, audio_data, temp_exists, temp_size,
                 temp_created, temp_unlinks, run_outcome, passes_done>>

\* analyze, lines 158-161: no file, the error is set and the dict returned;
\* a file, the try block is entered with _load_audio_raw(audio_file)
AfterDownload(file) == IF IsNone(file) THEN "done" ELSE "ld_find"

\* _download_audio_sample, lines 270-273: _find_ffmpeg() finds no ffmpeg (it
\* swallows every failure of its own probes) and None is returned
DlFfmpegMissing ==
  /\ a_pc = "dl_find"
  /\ audio_file' = None
  /\ result' = Some(SetError(Val(result), DownloadFailed))
  /\ a_pc' = AfterDownload(None)
  /\ UNCHANGED <<rsVars, fnVars, pqVars, ccVars, scVars, smVars, attempts, sample_duration, silence_threshold_db, audio_data,
                 temp_exists, temp_size, temp_created, temp_unlinks,
                 run_outcome, stages, passes_done>>

\* lines 276-277: tempfile.mkstemp(suffix=".mp3") creates the empty file
DlMkstemp ==
  /\ a_pc = "dl_find"
  /\ temp_exists' = TRUE
  /\ temp_size' = 0
  /\ temp_created' = temp_created + 1
  /\ a_pc' = "dl_run"
  /\ UNCHANGED <<rsVars, fnVars, pqVars, ccVars, scVars, smVars, attempts, sample_duration, silence_threshold_db, result,
                 audio_file, audio_data, temp_unlinks, run_outcome, stages,
                 passes_done>>

\* How running ffmpeg ends inside the try block. Off macOS (lines 360-367)
\* subprocess.run returns a return code or raises TimeoutExpired. On macOS
\* (lines 296-357) the queue holds the worker's dict, whose returncode is
\* None when the worker itself met a timeout or an error; or the join expired
\* and TimeoutExpired is raised after the worker is terminated; or an
\* Exception is raised (empty queue, the process could not be started).
Returned(rc, out) == [kind |-> "returned", returncode |-> rc, stdout |-> out]
DlOutcomes(system) ==
  {Returned(Some(rc), "none") : rc \in ReturnCodes}
    \cup {[kind |-> "TimeoutExpired"]}
    \cup (IF system = "Darwin"
          THEN {Returned(None, "none"), [kind |-> "Exception"]}
          ELSE {})

\* a faulty variant that catches TimeoutExpired only: any other exception
\* leaves _download_audio_sample and analyze
DownloadExceptOnlyTimeout(kind) ==
  IF kind = "TimeoutExpired" THEN "dl_except" ELSE "raised"

\* the except clauses of _download_audio_sample (lines 390-405) catch
\* TimeoutExpired and every other Exception
DownloadExcept(kind) == "dl_except"

\* line 294: the timeout of the download command, in seconds
DownloadTimeout(d) == d + 30

\* The one command _download_audio_sample builds (lines 281-290) decodes the
\* stream and encodes it with libmp3lame: a full transcode.
\* ffmpeg runs with the temp file as its output (-y): it leaves the file
\* empty or with data
DlRun ==
  /\ a_pc = "dl_run"
  /\ \E o \in DlOutcomes(platform_system) :
       /\ run_outcome' = o
       /\ a_pc' = IF o.kind = "returned" THEN "dl_check"
                  ELSE DownloadExcept(o.kind)
  /\ temp_size' \in {0, 1}
  /\ attempts' = Append(attempts, [strategy |-> "transcode",
                                   timeout |-> DownloadTimeout(sample_duration)])
  /\ UNCHANGED <<rsVars, fnVars, pqVars, ccVars, scVars, smVars, sample_duration, silence_threshold_db, result,
                 audio_file, audio_data, temp_exists, temp_created,
                 temp_unlinks, stages, passes_done>>

\* a faulty variant that takes exit code 0 for success without looking at
\* the size of the file
DownloadSucceededIgnoresSize(o, exists, size) ==
  o.returncode = Some(0) /\ exists

\* lines 369-388: the path is returned when the return code is 0 and the file
\* exists with size > 0; otherwise the file is unlinked and None returned
DownloadSucceeded(o, exists, size) ==
  o.returncode = Some(0) /\ exists /\ size > 0

DlCheck ==
  /\ a_pc = "dl_check"
  /\ IF DownloadSucceeded(run_outcome, temp_exists, temp_size)
     THEN /\ audio_file' = Some("tmp.mp3")
          /\ stages' = Append(stages, "decode")
          /\ a_pc' = AfterDownload(Some("tmp.mp3"))
          /\ UNCHANGED <<result, temp_exists, temp_unlinks>>
     ELSE /\ audio_file' = None
          /\ temp_exists' = FALSE
          /\ temp_unlinks' = IF temp_exists THEN temp_unlinks + 1
                             ELSE temp_unlinks
          /\ result' = Some(SetError(Val(result), DownloadFailed))
          /\ a_pc' = AfterDownload(None)
          /\ UNCHANGED stages
  /\ UNCHANGED <<rsVars, fnVars, pqVars, ccVars, scVars, smVars, attempts, sample_duration, silence_threshold_db, audio_data,
                 temp_size, temp_created, run_outcome, passes_done>>

\* lines 390-405: either except clause unlinks the file and returns None
DlExcept ==
  /\ a_pc = "dl_except"
  /\ audio_file' = None
  /\ temp_exists' = FALSE
  /\ temp_unlinks' = IF temp_exists THEN temp_unlinks + 1 ELSE temp_unlinks
  /\ result' = Some(SetError(Val(result), DownloadFailed))
  /\ a_pc' = AfterDownload(None)
  /\ UNCHANGED <<rsVars, fnVars, pqVars, ccVars, scVars, smVars, attempts, sample_duration, silence_threshold_db, audio_data,
                 temp_size, temp_created, run_outcome, stages, passes_done>>

\* a faulty variant without the test of line 166: the passes always run
AfterLoadNoCheck(data) == "pass_silence"

\* a faulty variant whose return on a missing buffer bypasses the finally
\* clause
AfterLoadSkipsCleanup(data) ==
  IF IsNone(data) THEN "done" ELSE "pass_silence"

\* analyze, lines 165-168: no buffer, the error is set and the return inside
\* the try block runs the finally clause; a buffer, the passes run
AfterLoad(data) == IF IsNone(data) THEN "finally" ELSE "pass_silence"

\* a faulty variant that repeats the download text for a load failure
LoadFailureTextCopied == DownloadFailed

\* the text analyze stores when _load_audio_raw returned no buffer (line 167)
LoadFailureText == LoadFailed

\* what analyze does with the value _load_audio_raw returned
LoadReturned(data) ==
  /\ audio_data' = data
  /\ a_pc' = AfterLoad(data)
  /\ IF IsNone(data)
     THEN /\ result' = Some(SetError(Val(result), LoadFailureText))
          /\ UNCHANGED stages
     ELSE /\ stages' = Append(stages, "silence")
          /\ UNCHANGED result

\* _load_audio_raw, lines 409-411: no ffmpeg, (None, 0, 0) is returned
LdFfmpegMissing ==
  /\ a_pc = "ld_find"
  /\ LoadReturned(None)
  /\ UNCHANGED <<rsVars, fnVars, pqVars, ccVars, scVars, smVars, attempts, sample_duration, silence_threshold_db, audio_file,
                 temp_exists, temp_size, temp_created, temp_unlinks,
                 run_outcome, passes_done>>

\* How the conversion to raw PCM ends (lines 426-499). stdout is "empty",
\* "torn" (an odd number of bytes, which np.frombuffer rejects with
\* ValueError) or "pcm". On macOS the worker's dict has returncode None after
\* a timeout or error in the worker; an expired join and an empty queue
\* return (None, 0, 0) directly; starting the process may raise.
RawOutputs == {"empty", "torn", "pcm"}
LdOutcomes(system) ==
  {Returned(Some(rc), out) : rc \in ReturnCodes, out \in RawOutputs}
    \cup (IF system = "Darwin"
          THEN {Returned(None, "empty"), [kind |-> "join_timeout"],
                [kind |-> "queue_empty"], [kind |-> "Exception"]}
          ELSE {[kind |-> "TimeoutExpired"]})

LdRun ==
  /\ a_pc = "ld_find"
  /\ \E o \in LdOutcomes(platform_system) : run_outcome' = o
  /\ a_pc' = "ld_parse"
  /\ UNCHANGED <<rsVars, fnVars, pqVars, ccVars, scVars, smVars, attempts, sample_duration, silence_threshold_db, result,
                 audio_file, audio_data, temp_exists, temp_size,
                 temp_created, temp_unlinks, stages, passes_done>>

\* the value _load_audio_raw returns for an outcome of the conversion:
\* lines 443-452 (join expired, queue empty), 501-504 (return code not 0),
\* 507-510 (no bytes), 512 with 549-551 (ValueError and every other
\* exception are caught), 545-547 (the mono buffer)
_load_audio_raw(o) ==
  IF o.kind # "returned" THEN None
  ELSE IF o.returncode # Some(0) THEN None
  ELSE IF o.stdout = "pcm" THEN Some("samples")
  ELSE None

LdParse ==
  /\ a_pc = "ld_parse"
  /\ LoadReturned(_load_audio_raw(run_outcome))
  /\ UNCHANGED <<rsVars, fnVars, pqVars, ccVars, scVars, smVars, attempts, sample_duration, silence_threshold_db, audio_file,
                 temp_exists, temp_size, temp_created, temp_unlinks,
                 run_outcome, passes_done>>

\* What _detect_silence leaves in result["silence_detection"]: nothing new
\* when it returns early (fewer samples than one window, lines 566-568), the
\* computed dict of lines 632-644 otherwise.
ComputedSilence(th) ==
  {[silence_detected |-> b, silence_percentage |-> IF b THEN 100 ELSE p,
    silence_periods |-> IF b THEN <<"period">> ELSE <<>>,
    threshold_db |-> th] : b \in BOOLEAN, p \in {0, 50}}
SilenceOutcomes(th) == {DefaultSilence(th)} \cup ComputedSilence(th)

DetectSilence ==
  /\ a_pc = "pass_silence"
  /\ \E out \in SilenceOutcomes(silence_threshold_db) :
       result' = Some([Val(result) EXCEPT !.silence_detection = out])
  /\ passes_done' = passes_done \cup {"silence"}
  /\ stages' = Append(stages, "quality")
  /\ a_pc' = "pass_quality"
  /\ UNCHANGED <<rsVars, fnVars, pqVars, ccVars, scVars, smVars, attempts, sample_duration, silence_threshold_db, audio_file,
                 audio_data, temp_exists, temp_size, temp_created,
                 temp_unlinks, run_outcome>>

\* _analyze_quality always stores the dict of lines 674-680 for a non-empty
\* buffer: the levels are None for an all-zero buffer
QualityOutcomes ==
  {[average_volume_db |-> None, peak_volume_db |-> None,
    dynamic_range_db |-> None, clipping_detected |-> FALSE,
    clipping_percentage |-> 0],
   [average_volume_db |-> Some(-20), peak_volume_db |-> Some(-3),
    dynamic_range_db |-> Some(17), clipping_detected |-> FALSE,
    clipping_percentage |-> 0],
   [average_volume_db |-> Some(0), peak_volume_db |-> Some(0),
    dynamic_range_db |-> Some(0), clipping_detected |-> TRUE,
    clipping_percentage |-> 100]}

AnalyzeQuality ==
  /\ a_pc = "pass_quality"
  /\ \E out \in QualityOutcomes :
       result' = Some([Val(result) EXCEPT !.audio_quality = out])
  /\ passes_done' = passes_done \cup {"quality"}
  /\ stages' = Append(stages, "errors")
  /\ a_pc' = "pass_errors"
  /\ UNCHANGED <<rsVars, fnVars, pqVars, ccVars, scVars, smVars, attempts, sample_duration, silence_threshold_db, audio_file,
                 audio_data, temp_exists, temp_size, temp_created,
                 temp_unlinks, run_outcome>>

\* _detect_errors changes result["error_detection"] in place only when it
\* finds a repetitive pattern (lines 719-724)
RepetitiveErrors ==
  [error_detected |-> TRUE,
   error_messages |->
     <<"Repetitive audio pattern detected (possible error message)">>,
   repetitive_pattern_detected |-> TRUE]
ErrorsOutcomes == {DefaultErrors, RepetitiveErrors}

DetectErrors ==
  /\ a_pc = "pass_errors"
  /\ \E out \in ErrorsOutcomes :
       result' = Some([Val(result) EXCEPT !.error_detection = out])
  /\ passes_done' = passes_done \cup {"errors"}
  /\ a_pc' = "finally"
  /\ UNCHANGED <<rsVars, fnVars, pqVars, ccVars, scVars, smVars, attempts, sample_duration, silence_threshold_db, audio_file,
                 audio_data, temp_exists, temp_size, temp_created,
                 temp_unlinks, run_outcome, stages>>

\* lines 175-177: an Exception raised by the pass in progress (MemoryError
\* from an array copy, for one) is caught, its text stored; the sections
\* keep whatever the completed passes stored
PassPcs == {"pass_silence", "pass_quality", "pass_errors"}
PassRaises ==
  /\ a_pc \in PassPcs
  /\ result' = Some(SetError(Val(result), "MemoryError"))
  /\ a_pc' = "finally"
  /\ UNCHANGED <<rsVars, fnVars, pqVars, ccVars, scVars, smVars, attempts, sample_duration, silence_threshold_db, audio_file,
                 audio_data, temp_exists, temp_size, temp_created,
                 temp_unlinks, run_outcome, stages, passes_done>>

\* lines 179-185: the finally clause unlinks the sample file if it exists;
\* then analyze returns result
Finally ==
  /\ a_pc = "finally"
  /\ IF ~IsNone(audio_file) /\ temp_exists
     THEN temp_exists' = FALSE /\ temp_unlinks' = temp_unlinks + 1
     ELSE UNCHANGED <<temp_exists, temp_unlinks>>
  /\ a_pc' = "done"
  /\ UNCHANGED <<rsVars, fnVars, pqVars, ccVars, scVars, smVars, attempts, sample_duration, silence_threshold_db, result,
                 audio_file, audio_data, temp_size, temp_created,
                 run_outcome, stages, passes_done>>

AnNext ==
  \/ AnalyzeCall
  \/ DlFfmpegMissing
  \/ DlMkstemp
  \/ DlRun
  \/ DlCheck
  \/ DlExcept
  \/ LdFfmpegMissing
  \/ LdRun
  \/ LdParse
  \/ DetectSilence
  \/ AnalyzeQuality
  \/ DetectErrors
  \/ PassRaises
  \/ Finally

\* =================================================================
\* Functions without state of their own, called on their own
\* =================================================================

\* return codes range over -MaxSignal .. 128 + MaxSignal, and None
MaxSignal == 16
ClassifyInputs == {None} \cup {Some(r) : r \in (-MaxSignal)..(128 + MaxSignal)}

\* _classify_returncode(returncode)
CallClassifyReturncode ==
  /\ call.fn = "none"
  /\ \E r \in ClassifyInputs :
       /\ call' = [fn |-> "_classify_returncode", returncode |-> r]
       /\ ret' = _classify_returncode(r)
  /\ UNCHANGED <<rsVars, anVars, pqVars, ccVars, scVars, smVars>>

\* ---------------------------------------------- _load_audio_raw, in detail

\* raw int16 sample sequences have up to MaxRaw samples
MaxRaw == 4
SampleValues == {-3, 0, 5}
RawSamples == UNION {[1..n -> SampleValues] : n \in 0..MaxRaw}

\* How the conversion command ends, with its output: the int16 samples of
\* stdout in order, and whether one more byte follows them. _find_ffmpeg may
\* also find no ffmpeg (lines 409-411).
DecodeReturned(rc, raw, odd) ==
  [kind |-> "returned", returncode |-> rc, raw |-> raw, odd_byte |-> odd]
DecodeOutcomes(system) ==
  {[kind |-> "ffmpeg_missing"]}
    \cup {DecodeReturned(Some(rc), raw, odd) :
            rc \in {0, 1}, raw \in RawSamples, odd \in BOOLEAN}
    \cup (IF system = "Darwin"
          THEN {DecodeReturned(None, <<>>, FALSE), [kind |-> "join_timeout"],
                [kind |-> "queue_empty"], [kind |-> "Exception"]}
          ELSE {[kind |-> "TimeoutExpired"]})

\* (None, 0, 0)
LoadFailure == [samples |-> None, sample_rate |-> 0, channels |-> 0]

\* a faulty variant in which the ValueError of np.frombuffer escapes
LoadExceptValueErrorEscapes(e) ==
  IF e = "ValueError" THEN [raised |-> e] ELSE LoadFailure

\* lines 549-551: except Exception returns (None, 0, 0)
LoadExcept(e) == LoadFailure

\* a faulty variant that pads and pairs whatever the length
DownmixAlwaysPairs(raw) ==
  LET padded == IF Len(raw) % 2 # 0 THEN Append(raw, 0) ELSE raw
  IN [i \in 1..(Len(padded) \div 2) |-> padded[2 * i - 1] + padded[2 * i]]

\* lines 522-545, the buffer that becomes samples. Its elements are held
\* doubled, so that the mean of a pair (a + b) / 2 is held as a + b and a
\* sample x that is not averaged as 2 * x. With 2 or more samples the pairs
\* are averaged, after a zero is appended to an odd number of them; a single
\* sample is left as it is.
Downmix(raw) ==
  IF Len(raw) >= 2
  THEN LET padded == IF Len(raw) % 2 # 0 THEN Append(raw, 0) ELSE raw
       IN [i \in 1..(Len(padded) \div 2) |->
             padded[2 * i - 1] + padded[2 * i]]
  ELSE [i \in 1..Len(raw) |-> 2 * raw[i]]

\* _load_audio_raw(audio_file) for an outcome of the conversion
LoadAudioRaw(o) ==
  IF o.kind \in {"ffmpeg_missing", "join_timeout", "queue_empty"}
    THEN LoadFailure
  ELSE IF o.kind # "returned" THEN LoadExcept(o.kind)
  ELSE IF o.returncode # Some(0) THEN LoadFailure
  ELSE IF Len(o.raw) = 0 /\ ~o.odd_byte THEN LoadFailure
  ELSE IF o.odd_byte THEN LoadExcept("ValueError")
  ELSE IF Len(o.raw) = 0 THEN LoadFailure
  ELSE [samples |-> Some(Downmix(o.raw)), sample_rate |-> 44100,
        channels |-> 1]

CallLoadAudioRaw ==
  /\ call.fn = "none"
  /\ \E o \in DecodeOutcomes(platform_system) :
       /\ call' = [fn |-> "_load_audio_raw", outcome |-> o]
       /\ ret' = LoadAudioRaw(o)
  /\ UNCHANGED <<rsVars, anVars, pqVars, ccVars, scVars, smVars>>

\* ------------------------------------------------ _detect_silence, in detail

\* Buffers are tried at a sample rate of SampleRate samples per second (the
\* decoder gives 44100), with up to MaxWindows full windows. Times, which
\* the code holds in seconds, are held in samples: seconds * sample_rate.
SampleRate == 20
MaxWindows == 4

\* line 564: window_size = max(1, int(sample_rate * 0.1))
WindowSize(sample_rate) ==
  IF sample_rate \div 10 >= 1 THEN sample_rate \div 10 ELSE 1

\* rms_db of an all-zero window: -np.inf (line 588), below every threshold
NegInf == -1000
\* rms_db of the windows tried
Levels == {NegInf, -60, -20}

\* A buffer: the rms_db of each full window in order, and the number of
\* samples after the last full window (fewer than a window).
Buffers ==
  {[levels |-> l, tail |-> t] :
     l \in UNION {[1..n -> Levels] : n \in 0..MaxWindows},
     t \in 0..(WindowSize(SampleRate) - 1)}
NumSamples(buf) == Len(buf.levels) * WindowSize(SampleRate) + buf.tail

\* self.silence_min_duration, in samples: half a window, one window, two
\* windows
MinDurations ==
  {1, WindowSize(SampleRate), 2 * WindowSize(SampleRate)}

\* a faulty variant that opens a period at every silent window
AfterWindowAlwaysAppends(periods, i, silent) ==
  IF silent
  THEN Append(periods, [start |-> i * WindowSize(SampleRate), end |-> None,
                        duration |-> 0])
  ELSE periods

\* lines 591-610, the body of the loop for window i (counted from 0): the
\* list of periods after the window
AfterWindow(periods, i, silent) ==
  LET w == WindowSize(SampleRate)
      n == Len(periods)
      time_start == i * w
  IN IF silent
     THEN IF n = 0 \/ ~IsNone(periods[n].end)
          THEN Append(periods, [start |-> time_start, end |-> None,
                                duration |-> 0])
          ELSE [periods EXCEPT ![n].end = Some(time_start + w)]
     ELSE IF n > 0 /\ IsNone(periods[n].end)
          THEN [periods EXCEPT ![n].end = Some(i * w),
                               ![n].duration = i * w - periods[n].start]
          ELSE periods

\* lines 574-610: the loop over the windows from window i on
RECURSIVE ScanWindows(_, _, _, _)
ScanWindows(levels, th, i, periods) ==
  IF i >= Len(levels) THEN periods
  ELSE ScanWindows(levels, th, i + 1,
                   AfterWindow(periods, i, levels[i + 1] < th))

\* lines 612-616: periods still open end at the end of the buffer
ClosePeriods(periods, total) ==
  [k \in 1..Len(periods) |->
     IF IsNone(periods[k].end)
     THEN [start |-> periods[k].start, end |-> Some(total),
           duration |-> total - periods[k].start]
     ELSE periods[k]]

\* a faulty variant that counts a silent window once when its period is
\* opened or continued and once more for the window itself
TotalSilenceSamplesTwice(levels, th) ==
  2 * WindowSize(SampleRate)
    * Cardinality({i \in 1..Len(levels) : levels[i] < th})

\* a faulty variant that leaves out silent windows with no silent neighbour
TotalSilenceSamplesInRuns(levels, th) ==
  WindowSize(SampleRate)
    * Cardinality({i \in 1..Len(levels) :
                     /\ levels[i] < th
                     /\ \/ i > 1 /\ levels[i - 1] < th
                        \/ i < Len(levels) /\ levels[i + 1] < th})

\* line 592: window_size is added for every window below the threshold
TotalSilenceSamples(levels, th) ==
  WindowSize(SampleRate)
    * Cardinality({i \in 1..Len(levels) : levels[i] < th})

\* a faulty variant of the filter that drops a period of exactly the
\* minimum duration
IsSignificantStrict(p, min_duration) == p.duration > min_duration

\* line 621: the filter of significant_periods
IsSignificant(p, min_duration) == p.duration >= min_duration

\* round(x * 100, 2) for x = a / b, held in hundredths of a percent
PercentRounded(a, b) == (2 * a * 10000 + b) \div (2 * b)

\* _detect_silence(samples, sample_rate, channels, result): the list
\* silence_periods after line 616 and the dict left in
\* result["silence_detection"] (the given one after an early return). The
\* periods of the dict are held unrounded.
_detect_silence(buf, th, min_duration, section) ==
  LET w == WindowSize(SampleRate)
      num_windows == NumSamples(buf) \div w
      silence_periods == ClosePeriods(ScanWindows(buf.levels, th, 0, <<>>),
                                      NumSamples(buf))
      total_silence_samples == TotalSilenceSamples(buf.levels, th)
      significant(p) == IsSignificant(p, min_duration)
      significant_periods == SelectSeq(silence_periods, significant)
  IN IF NumSamples(buf) = 0 \/ num_windows = 0
     THEN [periods |-> <<>>, section |-> section]
     ELSE [periods |-> silence_periods,
           section |->
             [silence_detected |-> Len(significant_periods) > 0,
              silence_percentage |->
                PercentRounded(total_silence_samples, NumSamples(buf)),
              silence_periods |->
                [k \in 1..Len(significant_periods) |->
                   [start_seconds |-> significant_periods[k].start,
                    end_seconds |-> Val(significant_periods[k].end),
                    duration_seconds |-> significant_periods[k].duration]],
              threshold_db |-> th]]

CallDetectSilence ==
  /\ call.fn = "none"
  /\ \E buf \in Buffers, th \in Thresholds, m \in MinDurations :
       /\ call' = [fn |-> "_detect_silence", buf |-> buf, threshold_db |-> th,
                   silence_min_duration |-> m]
       /\ ret' = _detect_silence(buf, th, m, DefaultSilence(th))
  /\ UNCHANGED <<rsVars, anVars, pqVars, ccVars, scVars, smVars>>

\* ----------------------------------------------- _analyze_quality, in detail

\* What _analyze_quality reads of a buffer: how many samples have each
\* value. The values tried lie around 0.99 * 32768 = 32440.32 and at full
\* scale; the counts allow buffers of which exactly 1% is clipped.
QualityValues == {0, 32440, 32441, -32767}
QualityCounts == {0, 1, 2, 99, 198}
QualityBuffers == [QualityValues -> QualityCounts]

Abs(x) == IF x < 0 THEN -x ELSE x

RECURSIVE SumOver(_, _)
SumOver(f, S) ==
  IF S = {} THEN 0
  ELSE LET x == CHOOSE y \in S : TRUE IN f[x] + SumOver(f, S \ {x})

\* len(samples)
QualityLen(buf) == SumOver(buf, DOMAIN buf)

\* lines 653-654, 669-670: abs(sample / 2**15) >= 0.99. The comparison is
\* made in float32, where 0.99 is 0.99000000954; no sample value or mean of
\* two sample values lies between the two thresholds.
IsClipped(v) == 100 * Abs(v) >= 99 * 32768

\* line 670
ClippedSamples(buf) ==
  SumOver([v \in DOMAIN buf |-> IF IsClipped(v) THEN buf[v] ELSE 0],
          DOMAIN buf)

\* a faulty variant that flags a buffer of which exactly 1% is clipped
ClippingDetectedAtOne(clipped, n) == 100 * clipped >= n

\* lines 671-672: clipped / n * 100 > 1.0. The float quotient of exactly 1%
\* times 100 is 1.0, and any larger ratio of counts gives more than 1.0.
ClippingDetected(clipped, n) == 100 * clipped > n

\* _analyze_quality(samples, sample_rate, channels, result): the dict left
\* in result["audio_quality"]. The three levels are None for an all-zero
\* buffer (rms = 0 and peak = 0 give -inf); otherwise they are held by what
\* they are computed from, without the logarithm: the sum of squares (in
\* units of 1024) with the length, the largest absolute value, and both.
_analyze_quality(buf, section) ==
  LET n == QualityLen(buf)
      sum_sq == SumOver([v \in DOMAIN buf |-> ((v * v) \div 1024) * buf[v]],
                        DOMAIN buf)
      present == {v \in DOMAIN buf : buf[v] > 0}
      peak == CHOOSE a \in {Abs(v) : v \in present} :
                \A v \in present : Abs(v) <= a
      clipped == ClippedSamples(buf)
  IN IF n = 0 THEN section
     ELSE [average_volume_db |->
             IF sum_sq > 0 THEN Some(<<sum_sq, n>>) ELSE None,
           peak_volume_db |-> IF peak > 0 THEN Some(peak) ELSE None,
           dynamic_range_db |->
             IF peak > 0 /\ sum_sq > 0 THEN Some(<<peak, sum_sq, n>>)
             ELSE None,
           clipping_detected |-> ClippingDetected(clipped, n),
           clipping_percentage |-> PercentRounded(clipped, n)]

CallAnalyzeQuality ==
  /\ call.fn = "none"
  /\ \E buf \in QualityBuffers :
       /\ call' = [fn |-> "_analyze_quality", buf |-> buf]
       /\ ret' = _analyze_quality(buf, DefaultQuality)
  /\ UNCHANGED <<rsVars, anVars, pqVars, ccVars, scVars, smVars>>

\* ------------------------------------------------- _detect_errors, in detail

\* The buffers _detect_errors is tried on: up to MaxErrorSamples int16
\* samples, held in units of 2048 (a sample x is x/16 once normalized, line
\* 693), at a sample rate of 0, 2 or 3 samples per second.
MaxErrorSamples == 7
ErrorSampleValues == {-1, 0, 4}
ErrorSampleRates == {0, 2, 3}
ErrorBuffers == UNION {[1..n -> ErrorSampleValues] : n \in 0..MaxErrorSamples}

SeqSum(q) == SumOver(q, DOMAIN q)

\* line 697: window_size = max(1, int(sample_rate * 1.0))
ErrorWindowSize(sample_rate) == IF sample_rate < 1 THEN 1 ELSE sample_rate

\* lines 700-704: the num_windows full windows of the buffer
ErrorWindows(samples, window_size) ==
  [i \in 1..(Len(samples) \div window_size) |->
     SubSeq(samples, (i - 1) * window_size + 1, i * window_size)]

\* line 707: np.var(w) = mean(x^2) - mean(x)^2 of the normalized window,
\* held as the integer np.var(w) * len(w)^2 * 256
Var(w) ==
  Len(w) * SeqSum([k \in DOMAIN w |-> w[k] * w[k]]) - SeqSum(w) * SeqSum(w)

\* lines 711-719: variance_mean < 0.01 and variance_std < 0.005, with
\* variance_std = sqrt(mean(v^2) - mean(v)^2), on the scaled variances
LowVariance(variances, window_size) ==
  LET n == Len(variances)
      w2 == window_size * window_size
      sum == SeqSum(variances)
      sum_sq == SeqSum([k \in DOMAIN variances |-> variances[k] * variances[k]])
  IN /\ 100 * sum < 256 * n * w2
     /\ 625 * (n * sum_sq - sum * sum) < 1024 * n * n * w2 * w2

RepetitiveMessage ==
  "Repetitive audio pattern detected (possible error message)"

\* a faulty variant that also looks at a buffer of a single window
EnoughWindowsFromOne(num_windows) == num_windows >= 1

\* line 699: if num_windows >= 2
EnoughWindows(num_windows) == num_windows >= 2

\* _detect_errors(samples, sample_rate, channels, result): the dict
\* result["error_detection"] after the call, which changes the given one in
\* place (lines 720-724) when there are two or more windows of low and
\* similar variance
_detect_errors(samples, sample_rate, section) ==
  IF Len(samples) = 0 \/ sample_rate <= 0
  THEN section
  ELSE LET window_size == ErrorWindowSize(sample_rate)
           windows == ErrorWindows(samples, window_size)
           variances == [k \in DOMAIN windows |-> Var(windows[k])]
       IN IF EnoughWindows(Len(windows)) /\ LowVariance(variances, window_size)
          THEN [repetitive_pattern_detected |-> TRUE,
                error_detected |-> TRUE,
                error_messages |->
                  Append(section.error_messages, RepetitiveMessage)]
          ELSE section

CallDetectErrors ==
  /\ call.fn = "none"
  /\ \E samples \in ErrorBuffers, sample_rate \in ErrorSampleRates :
       /\ call' = [fn |-> "_detect_errors", samples |-> samples,
                   sample_rate |-> sample_rate]
       /\ ret' = _detect_errors(samples, sample_rate, DefaultErrors)
  /\ UNCHANGED <<rsVars, anVars, pqVars, ccVars, scVars, smVars>>

\* ------------------------------------------ the three passes on one record

\* analyze hands the same array to the three passes (lines 171-173). Each
\* pass reads it through its own view above (window levels, counts by value,
\* samples of the one-second windows), so a buffer is held as the three
\* views; the threshold and the minimum duration are those of the analyzer.
PassNames == {"_detect_silence", "_analyze_quality", "_detect_errors"}
PassBuffers ==
  {[silence |-> s, quality |-> q, errors |-> e, sample_rate |-> 2] :
     s \in {b \in Buffers : Len(b.levels) <= 2 /\ b.tail = 0},
     q \in {b \in QualityBuffers :
              /\ b[32440] = 0 /\ b[-32767] = 0
              /\ b[0] \in {0, 2} /\ b[32441] \in {0, 2}},
     e \in {<<>>} \cup [1..4 -> {0, 4}]}
PassThreshold == -40
PassMinDuration == WindowSize(SampleRate)
FreshResult == DefaultResult(MaxSampleDuration, PassThreshold)

\* a faulty variant in which the quality pass rebuilds the record around its
\* own section
ApplyPassQualityResets(pass, buffer, record) ==
  CASE pass = "_detect_silence" ->
         [record EXCEPT !.silence_detection =
            _detect_silence(buffer.silence, PassThreshold, PassMinDuration,
                            @).section]
    [] pass = "_analyze_quality" ->
         [FreshResult EXCEPT !.audio_quality =
            _analyze_quality(buffer.quality, record.audio_quality)]
    [] pass = "_detect_errors" ->
         [record EXCEPT !.error_detection =
            _detect_errors(buffer.errors, buffer.sample_rate, @)]

\* One pass called on the record: _detect_silence and _analyze_quality
\* assign a new dict to their key (lines 632, 674), _detect_errors changes
\* the dict under its key in place (lines 720-724); none writes elsewhere.
ApplyPass(pass, buffer, record) ==
  CASE pass = "_detect_silence" ->
         [record EXCEPT !.silence_detection =
            _detect_silence(buffer.silence, PassThreshold, PassMinDuration,
                            @).section]
    [] pass = "_analyze_quality" ->
         [record EXCEPT !.audio_quality =
            _analyze_quality(buffer.quality, @)]
    [] pass = "_detect_errors" ->
         [record EXCEPT !.error_detection =
            _detect_errors(buffer.errors, buffer.sample_rate, @)]

\* The passes of the sequence order, called one after the other on the
\* record. The array is only read (each pass normalizes a copy made by
\* astype, lines 654, 693), so every pass is given the same buffer.
RECURSIVE RunPasses(_, _, _)
RunPasses(order, buffer, record) ==
  IF order = <<>> THEN record
  ELSE RunPasses(Tail(order), buffer, ApplyPass(Head(order), buffer, record))

PassOrders ==
  {o \in [1..3 -> PassNames] : \A i, j \in 1..3 : i # j => o[i] # o[j]}

\* The order of analyze, lines 171-173.
AnalyzeOrder == <<"_detect_silence", "_analyze_quality", "_detect_errors">>

CallPassesInOrder ==
  /\ call.fn = "none"
  /\ \E order \in PassOrders, buffer \in PassBuffers :
       /\ call' = [fn |-> "passes", order |-> order, buffer |-> buffer]
       /\ ret' = RunPasses(order, buffer, FreshResult)
  /\ UNCHANGED <<rsVars, anVars, pqVars, ccVars, scVars, smVars>>

\* One pass called twice with the same array and the same record.
CallPassTwice ==
  /\ call.fn = "none"
  /\ \E pass \in PassNames, buffer \in PassBuffers :
       /\ call' = [fn |-> "pass_twice", pass |-> pass, buffer |-> buffer]
       /\ ret' = [once |-> ApplyPass(pass, buffer, FreshResult),
                  twice |-> RunPasses(<<pass, pass>>, buffer, FreshResult)]
  /\ UNCHANGED <<rsVars, anVars, pqVars, ccVars, scVars, smVars>>

FnInit ==
  /\ call = [fn |-> "none"]
  /\ ret = None

\* =================================================================
\* run_process_with_queue (multiprocessing_utils.py)
\* =================================================================

\* dict.get(key): the value under the key, None without it; the values of
\* a dict are held as Some(v), or None for a None stored under the key
Get(d, key) == IF key \in DOMAIN d THEN d[key] ELSE None

\* The dicts a target puts: with a returncode of None, 0, 1 or -11, or
\* without the key.
PqResults ==
  {[returncode |-> rc, stdout |-> out, stderr |-> Some("")] :
     rc \in {None, Some(0), Some(1), Some(-11)},
     out \in {Some(""), Some("out")}}
    \cup {[success |-> Some(TRUE), stdout |-> Some("out")]}

\* Exit codes of the worker process: a plain return, an uncaught exception,
\* a segmentation fault.
PqExitCodes == {0, 1, -11}
SIGTERM == 15

\* What a target does: it may put one dict, which may be larger than the
\* pipe of the queue holds (the process then cannot exit before the item is
\* read), and it exits with a code or does not return (exit is None).
PqTargets ==
  {[puts |-> r, big |-> b, exit |-> e] :
     r \in {<<r>> : r \in PqResults} \cup {None}, b \in BOOLEAN,
     e \in {Some(c) : c \in PqExitCodes} \cup {None}}

\* lines 249-257, 281-289: signal_names.get(signal_num, f'SIG{signal_num}')
PqSignalName(signal_num) ==
  CASE signal_num = 11 -> "SIGSEGV"
    [] signal_num = 9 -> "SIGKILL"
    [] signal_num = 15 -> "SIGTERM"
    [] signal_num = 2 -> "SIGINT"
    [] signal_num = 3 -> "SIGQUIT"
    [] OTHER -> "SIG" \o ToString(signal_num)

\* lines 236-257, 272-289: failure_info for an exit code or a returncode
FailureInfo(exitcode, stdout, stderr) ==
  [exitcode |-> exitcode,
   signal |-> IF exitcode < 0 THEN Some(-exitcode) ELSE None,
   signal_name |-> IF exitcode < 0 THEN Some(PqSignalName(-exitcode)) ELSE None,
   stdout |-> stdout,
   stderr |-> stderr]

\* a faulty variant that takes every dict of the queue for a success
WorkerReportsFailureNever(item) == FALSE

\* line 270: result.get('returncode') is not None and
\* result.get('returncode') != 0 (every dict of PqResults is truthy)
WorkerReportsFailure(item) ==
  Get(item, "returncode") # None /\ Get(item, "returncode") # Some(0)

\* lines 233-295, once join has returned with the process not alive
AfterJoin(exitcode, queue) ==
  IF exitcode # 0
  THEN IF queue # <<>>
       THEN <<FALSE, Some(FailureInfo(exitcode, Get(Head(queue), "stdout"),
                                      Get(Head(queue), "stderr")))>>
       ELSE <<FALSE, Some(FailureInfo(exitcode, None, None))>>
  ELSE IF queue = <<>>
       THEN <<FALSE, None>>
       ELSE IF WorkerReportsFailure(Head(queue))
            THEN <<FALSE,
                   Some(FailureInfo(Val(Get(Head(queue), "returncode")),
                                    Get(Head(queue), "stdout"),
                                    Get(Head(queue), "stderr")))>>
            ELSE <<TRUE, Some(Head(queue))>>

NoWorker == [state |-> "none", exitcode |-> 0, put |-> FALSE,
             in_time |-> FALSE]

PqInit ==
  /\ pq_pc = "call"
  /\ pq_target = None
  /\ pq_worker = NoWorker
  /\ pq_queue = <<>>
  /\ pq_ret = None

\* lines 212-224: the queue and the process are created and the process
\* started with some target
PqStart ==
  /\ pq_pc = "call"
  /\ \E t \in PqTargets :
       /\ t.big => t.puts # None /\ t.exit = Some(0)
       /\ pq_target' = t
  /\ pq_worker' = [NoWorker EXCEPT !.state = "running"]
  /\ pq_pc' = "join"
  /\ UNCHANGED <<pq_queue, pq_ret>>
  /\ UNCHANGED <<rsVars, anVars, fnVars, ccVars, scVars, smVars>>

\* lines 212-224, 297-299: creating or starting raises
PqStartFails ==
  /\ pq_pc = "call"
  /\ pq_ret' = <<FALSE, None>>
  /\ pq_pc' = "finally"
  /\ UNCHANGED <<pq_target, pq_worker, pq_queue>>
  /\ UNCHANGED <<rsVars, anVars, fnVars, ccVars, scVars, smVars>>

\* the target calls queue.put(result_dict)
PqWorkerPut ==
  /\ pq_worker.state = "running"
  /\ ~pq_worker.put
  /\ pq_target.puts # None
  /\ pq_queue' = Append(pq_queue, Val(pq_target.puts))
  /\ pq_worker' = [pq_worker EXCEPT !.put = TRUE]
  /\ UNCHANGED <<pq_pc, pq_target, pq_ret>>
  /\ UNCHANGED <<rsVars, anVars, fnVars, ccVars, scVars, smVars>>

\* the worker process ends: by returning, after its put if it makes one
\* and once a large item has been read, or with a failure at any point;
\* in_time records whether join was still waiting
PqWorkerExit ==
  /\ pq_worker.state = "running"
  /\ pq_target.exit # None
  /\ pq_target.exit = Some(0) /\ pq_target.puts # None => pq_worker.put
  /\ ~(pq_target.big /\ pq_queue # <<>>)
  /\ pq_worker' = [pq_worker EXCEPT !.state = "exited",
                                    !.exitcode = Val(pq_target.exit),
                                    !.in_time = (pq_pc = "join")]
  /\ UNCHANGED <<pq_pc, pq_target, pq_queue, pq_ret>>
  /\ UNCHANGED <<rsVars, anVars, fnVars, ccVars, scVars, smVars>>

\* lines 227-295: join returns because the process ended
PqJoinReturns ==
  /\ pq_pc = "join"
  /\ pq_worker.state = "exited"
  /\ pq_ret' = AfterJoin(pq_worker.exitcode, pq_queue)
  /\ pq_queue' = IF pq_queue = <<>> THEN <<>> ELSE Tail(pq_queue)
  /\ pq_pc' = "finally"
  /\ UNCHANGED <<pq_target, pq_worker>>
  /\ UNCHANGED <<rsVars, anVars, fnVars, ccVars, scVars, smVars>>

\* lines 227-232: join_timeout passes with the process still alive
PqJoinTimeout ==
  /\ pq_pc = "join"
  /\ pq_worker.state = "running"
  /\ pq_ret' = <<FALSE, None>>
  /\ pq_pc' = "finally"
  /\ UNCHANGED <<pq_target, pq_worker, pq_queue>>
  /\ UNCHANGED <<rsVars, anVars, fnVars, ccVars, scVars, smVars>>

\* lines 301-305: the process is terminated if still alive, the queue
\* drained and closed
PqFinally ==
  /\ pq_pc = "finally"
  /\ pq_worker' =
       IF pq_worker.state = "running"
       THEN [pq_worker EXCEPT !.state = "exited", !.exitcode = -SIGTERM]
       ELSE pq_worker
  /\ pq_queue' = <<>>
  /\ pq_pc' = "done"
  /\ UNCHANGED <<pq_target, pq_ret>>
  /\ UNCHANGED <<rsVars, anVars, fnVars, ccVars, scVars, smVars>>

PqNext ==
  \/ PqStart
  \/ PqStartFails
  \/ PqWorkerPut
  \/ PqWorkerExit
  \/ PqJoinReturns
  \/ PqJoinTimeout
  \/ PqFinally

\* =================================================================
\* Two concurrent calls of AudioAnalyzer.analyze
\* =================================================================

Calls == {1, 2}
NumPaths == 2
Paths == 1..NumPaths
NumPids == 2
Pids == 1..NumPids
Urls == {"http://a", "http://b"}

\* self.silence_threshold_db of the analyzer each call runs on
CallThreshold == [c \in Calls |-> IF c = 1 THEN -40 ELSE 0]

Exists(path) == files[path] # None

\* a faulty variant that names the temp file without looking at the
\* directory
FreePathsAny(dir) == Paths

\* line 276: tempfile.mkstemp creates a file under a name that no file of
\* the directory has (O_EXCL); a name is free again once its file is
\* unlinked
FreePaths(dir) == {path \in Paths : dir[path] = None}

\* process ids are free again once their process has been waited for
FreePids(table) == {pid \in Pids : table[pid] = None}

CcInit ==
  /\ cc_pc = [c \in Calls |-> "idle"]
  /\ cc_url = [c \in Calls |-> "http://a"]
  /\ cc_temp_path = [c \in Calls |-> None]
  /\ cc_worker = [c \in Calls |-> None]
  /\ cc_audio = [c \in Calls |-> None]
  /\ cc_result = [c \in Calls |-> None]
  /\ files = [path \in Paths |-> None]
  /\ procs = [pid \in Pids |-> None]
  /\ foreign_file_op = FALSE
  /\ foreign_kill = FALSE

\* The call c touches the file at the path: foreign_file_op is raised when
\* another call created it.
Touch(c, path) ==
  foreign_file_op' =
    (foreign_file_op \/ (Exists(path) /\ Val(files[path]).creator # c))

\* if os.path.exists(path): os.unlink(path), by the call c
UnlinkIfExists(c, path) ==
  /\ files' = [files EXCEPT ![path] = None]
  /\ Touch(c, path)

\* lines 126-155: analyze(url) is entered (again, once the last call
\* returned) with a fresh record
CcCall(c) ==
  /\ cc_pc[c] \in {"idle", "done"}
  /\ \E url \in Urls : cc_url' = [cc_url EXCEPT ![c] = url]
  /\ cc_pc' = [cc_pc EXCEPT ![c] = "download"]
  /\ cc_temp_path' = [cc_temp_path EXCEPT ![c] = None]
  /\ cc_audio' = [cc_audio EXCEPT ![c] = None]
  /\ cc_result' = [cc_result EXCEPT ![c] = None]
  /\ UNCHANGED <<cc_worker, files, procs, foreign_file_op, foreign_kill>>
  /\ UNCHANGED <<rsVars, anVars, fnVars, pqVars, scVars, smVars>>

\* lines 270-273, 158-161: ffmpeg is not found
CcFfmpegMissing(c) ==
  /\ cc_pc[c] = "download"
  /\ cc_result' = [cc_result EXCEPT ![c] = Some([error |-> Some(DownloadFailed)])]
  /\ cc_pc' = [cc_pc EXCEPT ![c] = "done"]
  /\ UNCHANGED <<cc_url, cc_temp_path, cc_worker, cc_audio, files, procs,
                 foreign_file_op, foreign_kill>>
  /\ UNCHANGED <<rsVars, anVars, fnVars, pqVars, scVars, smVars>>

\* lines 275-277: temp_fd, temp_path = tempfile.mkstemp(suffix=".mp3")
CcMkstemp(c) ==
  /\ cc_pc[c] = "download"
  /\ \E path \in FreePaths(files) :
       /\ files' = [files EXCEPT ![path] = Some([creator |-> c, content |-> ""])]
       /\ cc_temp_path' = [cc_temp_path EXCEPT ![c] = Some(path)]
  /\ cc_pc' = [cc_pc EXCEPT ![c] = "dl_start"]
  /\ UNCHANGED <<cc_url, cc_worker, cc_audio, cc_result, procs,
                 foreign_file_op, foreign_kill>>
  /\ UNCHANGED <<rsVars, anVars, fnVars, pqVars, scVars, smVars>>

\* lines 300-307, 432-440 (and subprocess.run on other platforms): the call
\* starts the child that runs ffmpeg on its url and its temp_path, to
\* download or to decode
CcStartWorker(c) ==
  /\ cc_pc[c] \in {"dl_start", "ld_start"}
  /\ \E pid \in FreePids(procs) :
       /\ procs' = [procs EXCEPT ![pid] =
            Some([owner |-> c,
                  kind |-> IF cc_pc[c] = "dl_start" THEN "download" ELSE "load",
                  url |-> cc_url[c],
                  path |-> Val(cc_temp_path[c]),
                  state |-> "running",
                  out |-> None])]
       /\ cc_worker' = [cc_worker EXCEPT ![c] = Some(pid)]
  /\ cc_pc' = [cc_pc EXCEPT ![c] =
       IF cc_pc[c] = "dl_start" THEN "dl_join" ELSE "ld_join"]
  /\ UNCHANGED <<cc_url, cc_temp_path, cc_audio, cc_result, files,
                 foreign_file_op, foreign_kill>>
  /\ UNCHANGED <<rsVars, anVars, fnVars, pqVars, scVars, smVars>>

\* lines 281-290: ffmpeg -i url ... -y temp_path writes the stream to the
\* path it was given, over whatever is there, and ends
CcWorkerDownloads(pid) ==
  /\ procs[pid] # None
  /\ Val(procs[pid]).state = "running"
  /\ Val(procs[pid]).kind = "download"
  /\ LET w == Val(procs[pid])
     IN /\ files' = [files EXCEPT ![w.path] =
             Some([creator |-> IF Exists(w.path)
                               THEN Val(files[w.path]).creator ELSE w.owner,
                   content |-> w.url])]
        /\ Touch(w.owner, w.path)
        /\ procs' = [procs EXCEPT ![pid] =
             Some([w EXCEPT !.state = "exited", !.out = Some("written")])]
  /\ UNCHANGED <<cc_pc, cc_url, cc_temp_path, cc_worker, cc_audio, cc_result,
                 foreign_kill>>
  /\ UNCHANGED <<rsVars, anVars, fnVars, pqVars, scVars, smVars>>

\* lines 414-423: ffmpeg -i audio_file ... - reads the file at the path it
\* was given and ends
CcWorkerLoads(pid) ==
  /\ procs[pid] # None
  /\ Val(procs[pid]).state = "running"
  /\ Val(procs[pid]).kind = "load"
  /\ LET w == Val(procs[pid])
     IN /\ Touch(w.owner, w.path)
        /\ procs' = [procs EXCEPT ![pid] =
             Some([w EXCEPT !.state = "exited",
                            !.out = IF Exists(w.path)
                                    THEN Some(Val(files[w.path]).content)
                                    ELSE None])]
  /\ UNCHANGED <<cc_pc, cc_url, cc_temp_path, cc_worker, cc_audio, cc_result,
                 files, foreign_kill>>
  /\ UNCHANGED <<rsVars, anVars, fnVars, pqVars, scVars, smVars>>

\* ffmpeg fails (the stream is unreachable, the file is not audio): the
\* child ends without output
CcWorkerFails(pid) ==
  /\ procs[pid] # None
  /\ Val(procs[pid]).state = "running"
  /\ procs' = [procs EXCEPT ![pid] =
       Some([Val(procs[pid]) EXCEPT !.state = "exited"])]
  /\ UNCHANGED <<cc_pc, cc_url, cc_temp_path, cc_worker, cc_audio, cc_result,
                 files, foreign_file_op, foreign_kill>>
  /\ UNCHANGED <<rsVars, anVars, fnVars, pqVars, scVars, smVars>>

\* lines 308-388: the child of the download has ended; the path is returned
\* when ffmpeg succeeded and the file is not empty, the file unlinked
\* otherwise (lines 158-161: analyze returns the failure)
CcDownloadJoined(c) ==
  /\ cc_pc[c] = "dl_join"
  /\ Val(procs[Val(cc_worker[c])]).state = "exited"
  /\ LET w == Val(procs[Val(cc_worker[c])])
         path == Val(cc_temp_path[c])
     IN IF w.out # None /\ Exists(path) /\ Val(files[path]).content # ""
        THEN /\ Touch(c, path)
             /\ cc_pc' = [cc_pc EXCEPT ![c] = "ld_start"]
             /\ UNCHANGED <<files, cc_result>>
        ELSE /\ UnlinkIfExists(c, path)
             /\ cc_result' =
                  [cc_result EXCEPT ![c] = Some([error |-> Some(DownloadFailed)])]
             /\ cc_pc' = [cc_pc EXCEPT ![c] = "done"]
  /\ procs' = [procs EXCEPT ![Val(cc_worker[c])] = None]
  /\ cc_worker' = [cc_worker EXCEPT ![c] = None]
  /\ UNCHANGED <<cc_url, cc_temp_path, cc_audio, foreign_kill>>
  /\ UNCHANGED <<rsVars, anVars, fnVars, pqVars, scVars, smVars>>

\* lines 441-551, 165-171: the child of the decoding has ended
CcLoadJoined(c) ==
  /\ cc_pc[c] = "ld_join"
  /\ Val(procs[Val(cc_worker[c])]).state = "exited"
  /\ LET w == Val(procs[Val(cc_worker[c])])
     IN IF w.out # None
        THEN /\ cc_audio' = [cc_audio EXCEPT ![c] = w.out]
             /\ cc_pc' = [cc_pc EXCEPT ![c] = "passes"]
             /\ UNCHANGED cc_result
        ELSE /\ cc_result' =
                  [cc_result EXCEPT ![c] = Some([error |-> Some(LoadFailed)])]
             /\ cc_pc' = [cc_pc EXCEPT ![c] = "finally"]
             /\ UNCHANGED cc_audio
  /\ procs' = [procs EXCEPT ![Val(cc_worker[c])] = None]
  /\ cc_worker' = [cc_worker EXCEPT ![c] = None]
  /\ UNCHANGED <<cc_url, cc_temp_path, files, foreign_file_op, foreign_kill>>
  /\ UNCHANGED <<rsVars, anVars, fnVars, pqVars, scVars, smVars>>

\* lines 308-314, 390-397 and 441-450: the join times out; the call
\* terminates process_obj, waits for it, and fails: the download unlinks
\* the file, the decoding leaves it to the finally clause
CcJoinTimeout(c) ==
  /\ cc_pc[c] \in {"dl_join", "ld_join"}
  /\ Val(procs[Val(cc_worker[c])]).state = "running"
  /\ foreign_kill' =
       (foreign_kill \/ Val(procs[Val(cc_worker[c])]).owner # c)
  /\ procs' = [procs EXCEPT ![Val(cc_worker[c])] = None]
  /\ cc_worker' = [cc_worker EXCEPT ![c] = None]
  /\ IF cc_pc[c] = "dl_join"
     THEN /\ UnlinkIfExists(c, Val(cc_temp_path[c]))
          /\ cc_result' =
               [cc_result EXCEPT ![c] = Some([error |-> Some(DownloadFailed)])]
          /\ cc_pc' = [cc_pc EXCEPT ![c] = "done"]
     ELSE /\ cc_result' =
               [cc_result EXCEPT ![c] = Some([error |-> Some(LoadFailed)])]
          /\ cc_pc' = [cc_pc EXCEPT ![c] = "finally"]
          /\ UNCHANGED <<files, foreign_file_op>>
  /\ UNCHANGED <<cc_url, cc_temp_path, cc_audio>>
  /\ UNCHANGED <<rsVars, anVars, fnVars, pqVars, scVars, smVars>>

\* lines 171-173: the three passes fill the record from the decoded audio
\* and the analyzer's configuration
CcPasses(c) ==
  /\ cc_pc[c] = "passes"
  /\ cc_result' = [cc_result EXCEPT ![c] =
       Some([error |-> None, heard |-> Val(cc_audio[c]),
             threshold_db |-> CallThreshold[c]])]
  /\ cc_pc' = [cc_pc EXCEPT ![c] = "finally"]
  /\ UNCHANGED <<cc_url, cc_temp_path, cc_worker, cc_audio, files, procs,
                 foreign_file_op, foreign_kill>>
  /\ UNCHANGED <<rsVars, anVars, fnVars, pqVars, scVars, smVars>>

\* lines 179-187: the finally clause unlinks audio_file if it exists, and
\* analyze returns
CcFinally(c) ==
  /\ cc_pc[c] = "finally"
  /\ UnlinkIfExists(c, Val(cc_temp_path[c]))
  /\ cc_pc' = [cc_pc EXCEPT ![c] = "done"]
  /\ UNCHANGED <<cc_url, cc_temp_path, cc_worker, cc_audio, cc_result, procs,
                 foreign_kill>>
  /\ UNCHANGED <<rsVars, anVars, fnVars, pqVars, scVars, smVars>>

CcNext ==
  \/ \E c \in Calls : CcCall(c)
  \/ \E c \in Calls : CcFfmpegMissing(c)
  \/ \E c \in Calls : CcMkstemp(c)
  \/ \E c \in Calls : CcStartWorker(c)
  \/ \E pid \in Pids : CcWorkerDownloads(pid)
  \/ \E pid \in Pids : CcWorkerLoads(pid)
  \/ \E pid \in Pids : CcWorkerFails(pid)
  \/ \E c \in Calls : CcDownloadJoined(c)
  \/ \E c \in Calls : CcLoadJoined(c)
  \/ \E c \in Calls : CcJoinTimeout(c)
  \/ \E c \in Calls : CcPasses(c)
  \/ \E c \in Calls : CcFinally(c)

\* =================================================================
\* The external commands of one stream check (stream_checker.py main)
\* =================================================================

\* The launch sites, in the order main reaches them: phase 2 looks VLC up
\* and plays the stream, phase 3 looks ffmpeg up, downloads, looks ffmpeg up
\* again and decodes.
NumVlcPaths == 4
NumFfmpegPaths == 4
LookupSites == {"vlc_version", "ffmpeg_version_download", "ffmpeg_version_load"}

NumPathsOf(site) == IF site = "vlc_version" THEN NumVlcPaths ELSE NumFfmpegPaths

\* The function the process started for a site runs (player_test.py
\* 378-381, 422-425, 532-535; audio_analysis.py 204-207, 302-305, 434-437).
SiteTarget(site) ==
  IF site = "vlc_playback" THEN "_run_vlc_worker" ELSE "_run_subprocess_worker"

\* Whether the target sets os.environ['STREAM_CHECKER_SUBPROCESS_HELPER']
\* to '1' before it launches: only the workers of run_subprocess_safe do
\* (subprocess_utils.py 57, 119), and no site starts those.
SetsHelperFlag(target) ==
  target \in {"_subprocess_worker_pipe", "_subprocess_worker_stdout_to_file"}

\* Where main goes after the command of a site succeeded or failed.
AfterSite(site, index, ok, phase) ==
  LET audio == IF phase >= 3
               THEN [pc |-> "ffmpeg_version_download", index |-> 1]
               ELSE [pc |-> "done", index |-> 1]
  IN CASE site = "which_vlc" -> [pc |-> "vlc_version", index |-> 1]
       [] site \in LookupSites /\ ~ok /\ index < NumPathsOf(site) ->
            [pc |-> site, index |-> index + 1]
       [] site = "vlc_version" /\ ok -> [pc |-> "vlc_playback", index |-> 1]
       [] site = "vlc_version" /\ ~ok -> audio
       [] site = "vlc_playback" -> audio
       [] site = "ffmpeg_version_download" /\ ok ->
            [pc |-> "download", index |-> 1]
       [] site = "download" /\ ok -> [pc |-> "ffmpeg_version_load", index |-> 1]
       [] site = "ffmpeg_version_load" /\ ok -> [pc |-> "decode", index |-> 1]
       [] OTHER -> [pc |-> "done", index |-> 1]

ScInit ==
  /\ sc_pc = "idle"
  /\ sc_index = 1
  /\ sc_phase = 1
  /\ sc_worker = None
  /\ sc_launches = {}

\* stream_checker.py 446-453, 488-536: main runs phases 1..args.phase;
\* phase 2 launches commands only when python-vlc is not importable
\* (player_test.py 718)
ScMain ==
  /\ sc_pc = "idle"
  /\ \E phase \in 1..4, vlc_available \in BOOLEAN :
       /\ sc_phase' = phase
       /\ sc_pc' = IF phase >= 2 /\ ~vlc_available THEN "which_vlc"
                   ELSE IF phase >= 3 THEN "ffmpeg_version_download"
                   ELSE "done"
  /\ UNCHANGED <<sc_index, sc_worker, sc_launches>>
  /\ UNCHANGED <<rsVars, anVars, fnVars, pqVars, ccVars, smVars>>

\* on macOS every site starts a multiprocessing.Process for its command;
\* the process inherits the environment of main, where the helper flag is
\* not set
ScSpawn ==
  /\ sc_pc \notin {"idle", "done"}
  /\ sc_worker = None
  /\ platform_system = "Darwin"
  /\ sc_worker' = Some([target |-> SiteTarget(sc_pc), helper |-> FALSE])
  /\ UNCHANGED <<sc_pc, sc_index, sc_phase, sc_launches>>
  /\ UNCHANGED <<rsVars, anVars, fnVars, pqVars, ccVars, smVars>>

\* the process of the site calls subprocess.run / subprocess.Popen
\* (audio_analysis.py 60, player_test.py 67), the command succeeds or
\* fails, and main goes on
ScWorkerLaunch ==
  /\ sc_worker # None
  /\ LET w == Val(sc_worker)
     IN sc_launches' = sc_launches \cup
          {[site |-> sc_pc, in_main |-> FALSE,
            helper |-> w.helper \/ SetsHelperFlag(w.target)]}
  /\ \E ok \in BOOLEAN :
       /\ sc_pc' = AfterSite(sc_pc, sc_index, ok, sc_phase).pc
       /\ sc_index' = AfterSite(sc_pc, sc_index, ok, sc_phase).index
  /\ sc_worker' = None
  /\ UNCHANGED sc_phase
  /\ UNCHANGED <<rsVars, anVars, fnVars, pqVars, ccVars, smVars>>

\* on other platforms the command is launched from main (audio_analysis.py
\* 260, 360, 495; player_test.py 394, 477, 616)
ScDirect ==
  /\ sc_pc \notin {"idle", "done"}
  /\ platform_system # "Darwin"
  /\ sc_launches' = sc_launches \cup
       {[site |-> sc_pc, in_main |-> TRUE, helper |-> FALSE]}
  /\ \E ok \in BOOLEAN :
       /\ sc_pc' = AfterSite(sc_pc, sc_index, ok, sc_phase).pc
       /\ sc_index' = AfterSite(sc_pc, sc_index, ok, sc_phase).index
  /\ UNCHANGED <<sc_phase, sc_worker>>
  /\ UNCHANGED <<rsVars, anVars, fnVars, pqVars, ccVars, smVars>>

ScNext ==
  \/ ScMain
  \/ ScSpawn
  \/ ScWorkerLaunch
  \/ ScDirect

\* =================================================================
\* ensure_spawn_method / _ensure_spawn_method and the start method
\* =================================================================

\* The modules that hold a copy of the function and of the flag.
Copies == {"multiprocessing_utils", "subprocess_utils", "audio_analysis"}
StartMethods == {"fork", "spawn"}

\* Whether the copy reads the start method on this platform: the copy of
\* multiprocessing_utils reads it on every platform (line 52), the others
\* return first when the platform is not macOS.
ReadsMethod(copy, system) ==
  copy = "multiprocessing_utils" \/ system = "Darwin"

\* Whether the copy sets its flag in the except RuntimeError clause around
\* set_start_method: multiprocessing_utils.py 61-64 and subprocess_utils.py
\* 33-34 do, audio_analysis.py 35-37 passes.
FlagOnRuntimeError(copy) == copy # "audio_analysis"

SmInit ==
  /\ sm_method = None
  /\ sm_flag = [copy \in Copies |-> FALSE]
  /\ sm_pc = [copy \in Copies |-> "out"]
  /\ sm_current = [copy \in Copies |-> None]
  /\ sm_returned = [copy \in Copies |-> FALSE]
  /\ sm_later = FALSE

\* a call finds the flag set and returns
SmSkip(copy) ==
  /\ sm_pc[copy] = "out"
  /\ sm_flag[copy]
  /\ sm_returned' = [sm_returned EXCEPT ![copy] = TRUE]
  /\ UNCHANGED <<sm_method, sm_flag, sm_pc, sm_current, sm_later>>
  /\ UNCHANGED <<rsVars, anVars, fnVars, pqVars, ccVars, scVars>>

\* a call finds the flag not set and, on a platform where it does not look
\* at the start method, sets the flag and returns
SmOtherPlatform(copy) ==
  /\ sm_pc[copy] = "out"
  /\ ~sm_flag[copy]
  /\ ~ReadsMethod(copy, platform_system)
  /\ sm_flag' = [sm_flag EXCEPT ![copy] = TRUE]
  /\ sm_returned' = [sm_returned EXCEPT ![copy] = TRUE]
  /\ UNCHANGED <<sm_method, sm_pc, sm_current, sm_later>>
  /\ UNCHANGED <<rsVars, anVars, fnVars, pqVars, ccVars, scVars>>

\* current_method = multiprocessing.get_start_method(allow_none=True)
SmRead(copy) ==
  /\ sm_pc[copy] = "out"
  /\ ~sm_flag[copy]
  /\ ReadsMethod(copy, platform_system)
  /\ sm_current' = [sm_current EXCEPT ![copy] = sm_method]
  /\ sm_pc' = [sm_pc EXCEPT ![copy] = "set"]
  /\ sm_later' = (sm_later \/ sm_returned[copy])
  /\ UNCHANGED <<sm_method, sm_flag, sm_returned>>
  /\ UNCHANGED <<rsVars, anVars, fnVars, pqVars, ccVars, scVars>>

\* the branches on current_method: set_start_method('spawn') raises
\* RuntimeError when the method has been fixed since it was read,
\* set_start_method('spawn', force=True) replaces it; the call returns
SmApply(copy) ==
  /\ sm_pc[copy] = "set"
  /\ IF platform_system # "Darwin" \/ sm_current[copy] = Some("spawn")
     THEN /\ sm_flag' = [sm_flag EXCEPT ![copy] = TRUE]
          /\ UNCHANGED sm_method
     ELSE IF sm_current[copy] = None /\ sm_method # None
     THEN /\ sm_flag' = [sm_flag EXCEPT ![copy] = FlagOnRuntimeError(copy)]
          /\ UNCHANGED sm_method
     ELSE /\ sm_method' = Some("spawn")
          /\ sm_flag' = [sm_flag EXCEPT ![copy] = TRUE]
  /\ sm_pc' = [sm_pc EXCEPT ![copy] = "out"]
  /\ sm_returned' = [sm_returned EXCEPT ![copy] = TRUE]
  /\ UNCHANGED <<sm_current, sm_later>>
  /\ UNCHANGED <<rsVars, anVars, fnVars, pqVars, ccVars, scVars>>

\* another thread or module fixes the start method: by set_start_method, or
\* by creating a multiprocessing object, which fixes the platform's default
SmFixedElsewhere ==
  /\ sm_method = None
  /\ \E m \in StartMethods : sm_method' = Some(m)
  /\ UNCHANGED <<sm_flag, sm_pc, sm_current, sm_returned, sm_later>>
  /\ UNCHANGED <<rsVars, anVars, fnVars, pqVars, ccVars, scVars>>

SmNext ==
  \/ \E copy \in Copies : SmSkip(copy)
  \/ \E copy \in Copies : SmOtherPlatform(copy)
  \/ \E copy \in Copies : SmRead(copy)
  \/ \E copy \in Copies : SmApply(copy)
  \/ SmFixedElsewhere

vars == <<rsVars, anVars, fnVars, pqVars, ccVars, scVars, smVars>>
Init ==
  RsInit /\ AnInit /\ FnInit /\ PqInit /\ CcInit /\ ScInit /\ SmInit
Next == RsNext
Spec == Init /\ [][Next]_vars
SpecAnalyze == Init /\ [][AnNext]_vars

\* =================================================================
\* AudioAnalyzer.__init__ (audio_analysis.py) and the options of
\* stream_checker.py that reach it
\* =================================================================

\* arguments the constructor is given: both sides of every limit
InitDurations == {-1, 0, 1, 300, 301}
InitThresholds == {-101, -100, -40, 0, 1}
InitMinDurations == {-1, 0, 2}

\* AudioAnalyzer.__init__ (lines 110-124): three checks, each raising
\* ValueError, then the three attributes
AudioAnalyzer_init(duration, threshold_db, min_duration) ==
  IF duration <= 0
  THEN [raised |-> "ValueError",
        message |-> "sample_duration must be positive"]
  ELSE IF ~(-100 <= threshold_db /\ threshold_db <= 0)
  THEN [raised |-> "ValueError",
        message |-> "silence_threshold_db must be between -100 and 0"]
  ELSE IF min_duration <= 0
  THEN [raised |-> "ValueError",
        message |-> "silence_min_duration must be positive"]
  ELSE [raised |-> "",
        sample_duration |-> duration,
        silence_threshold_db |-> threshold_db,
        silence_min_duration |-> min_duration]

CallAudioAnalyzer ==
  /\ call.fn = "none"
  /\ \E d \in InitDurations, th \in InitThresholds, m \in InitMinDurations :
       /\ call' = [fn |-> "AudioAnalyzer", sample_duration |-> d,
                   silence_threshold_db |-> th, silence_min_duration |-> m]
       /\ ret' = AudioAnalyzer_init(d, th, m)
  /\ UNCHANGED <<rsVars, anVars, pqVars, ccVars, scVars, smVars>>

\* validation.py, lines 106-117 (the options are parsed by argparse as float
\* and int, so the isinstance tests pass)
validate_silence_threshold(threshold) == -100 <= threshold /\ threshold <= 0
validate_sample_duration(duration) == 1 <= duration /\ duration <= 300

\* --silence-threshold, --sample-duration and --phase as argparse leaves
\* them: None when the option is absent
ArgThresholds == {None} \cup {Some(t) : t \in {-101, -100, -20, 0, 1}}
ArgDurations == {None} \cup {Some(d) : d \in {0, 1, 5, 300, 301}}
ArgPhases == {None, Some(2), Some(3)}
\* stream_checker.default_silence_threshold and default_sample_duration of
\* the configuration (config.py lines 92-93, or the user's file)
ConfigThresholds == {-40, -30}
ConfigDurations == {10, 20}

\* Python's "x or y": y when x is None or zero
Or(x, y) == IF IsNone(x) \/ Val(x) = 0 THEN y ELSE Val(x)

\* range(1, args.phase + 1) when args.phase is truthy, else [1, 2, 3, 4]
\* (lines 449-453)
phases_to_run(phase) == IF IsNone(phase) THEN 1..4 ELSE 1..Val(phase)

\* main(), as far as the analyzer is concerned: the two validations (lines
\* 408-416) and phase 3 (lines 524-536)
MainPhase3(phase, arg_threshold, arg_duration, cfg_th, cfg_dur) ==
  IF ~IsNone(arg_threshold)
     /\ ~validate_silence_threshold(Val(arg_threshold))
  THEN [raised |-> "SystemExit"]
  ELSE IF ~IsNone(arg_duration)
          /\ ~validate_sample_duration(Val(arg_duration))
  THEN [raised |-> "SystemExit"]
  ELSE IF 3 \notin phases_to_run(phase)
  THEN [raised |-> "", analyzer |-> None]
  ELSE [raised |-> "",
        analyzer |-> Some(AudioAnalyzer_init(
                            Or(arg_duration, cfg_dur),
                            Or(arg_threshold, cfg_th), 2))]

CallMain ==
  /\ call.fn = "none"
  /\ \E ph \in ArgPhases, th \in ArgThresholds, d \in ArgDurations,
        cth \in ConfigThresholds, cd \in ConfigDurations :
       /\ call' = [fn |-> "main", phase |-> ph, silence_threshold |-> th,
                   sample_duration |-> d, cfg_threshold |-> cth,
                   cfg_duration |-> cd]
       /\ ret' = MainPhase3(ph, th, d, cth, cd)
  /\ UNCHANGED <<rsVars, anVars, pqVars, ccVars, scVars, smVars>>

\* ---- failure_info of run_process_with_queue and run_process_with_pipe

\* run_process_with_pipe, lines 396-421: the same dict, built from its own
\* copy of the table
PipeFailureInfo(exitcode, stdout, stderr) ==
  [exitcode |-> exitcode,
   signal |-> IF exitcode < 0 THEN Some(-exitcode) ELSE None,
   signal_name |-> IF exitcode < 0 THEN Some(PqSignalName(-exitcode))
                   ELSE None,
   stdout |-> stdout,
   stderr |-> stderr]

\* exit codes of a worker for which failure_info is built: every one but 0
FailureExitCodes == ((-MaxSignal)..(128 + MaxSignal)) \ {0}

\* the worker exits with the code and has put or sent nothing
CallFailureInfo ==
  /\ call.fn = "none"
  /\ \E e \in FailureExitCodes,
        f \in {"run_process_with_queue", "run_process_with_pipe"} :
       /\ call' = [fn |-> "failure_info", function |-> f, exitcode |-> e]
       /\ ret' = IF f = "run_process_with_queue"
                 THEN FailureInfo(e, None, None)
                 ELSE PipeFailureInfo(e, None, None)
  /\ UNCHANGED <<rsVars, anVars, pqVars, ccVars, scVars, smVars>>

FnNext ==
  \/ CallClassifyReturncode
  \/ CallFailureInfo
  \/ CallAudioAnalyzer
  \/ CallMain
  \/ CallLoadAudioRaw
  \/ CallDetectSilence
  \/ CallAnalyzeQuality
  \/ CallDetectErrors
  \/ CallPassesInOrder
  \/ CallPassTwice

SpecFunctions == Init /\ [][FnNext]_vars
SpecQueue == Init /\ [][PqNext]_vars
SpecConcurrent == Init /\ [][CcNext]_vars
SpecLaunches == Init /\ [][ScNext]_vars
SpecStartMethod == Init /\ [][SmNext]_vars

\* ---- scheduling of run_subprocess_safe
\* The caller's thread runs: every statement of run_subprocess_safe that can
\* execute does, and subprocess.run returns once the command has exited or
\* its timeout is due.
CallerStep ==
  \/ DirectLaunch \/ DirectLaunchFails \/ DirectExit \/ DirectTimeout
  \/ MacPipe \/ MacPipeFails \/ MacStart \/ MacStartFails
  \/ JoinReturn \/ JoinTermReturn \/ JoinKillReturn
  \/ MacExcept \/ MacFinally
\* The worker's interpreter runs while it lives.
WorkerStep ==
  \/ WorkerLaunch \/ WorkerLaunchFails \/ WorkerCmdExit \/ WorkerCmdTimeout
  \/ WorkerSend
\* SIGKILL cannot be caught, blocked or ignored; SIGTERM can, so a delivery
\* of terminate() is not forced.
KillDelivered ==
  /\ signals # <<>>
  /\ signals[Len(signals)] = "kill"
  /\ WorkerSignalled
SpecFair ==
  /\ Init
  /\ [][Next]_vars
  /\ WF_vars(CallerStep)
  /\ WF_vars(WorkerStep)
  /\ WF_vars(KillDelivered)
  /\ WF_vars(Tick)

\* =================================================================
\* Claims about run_subprocess_safe
\* =================================================================

\* C2: when run_subprocess_safe returns, no process it caused to exist is
\* still alive: neither the isolated worker nor the external command the
\* worker (or the caller) launched.
C2_NoProcessLeftAlive ==
  rs_pc = "returned" => ~is_alive /\ cmd_state # "running"

\* The timeout has elapsed with the command still running: subprocess.run
\* raised TimeoutExpired, or the command outlived its timeout without anyone
\* waiting for it.
TimeoutElapsed ==
  \/ timed_out
  \/ cmd.kind = "hangs" /\ cmd_state = "running" /\ now >= cmd_deadline

ResultKeys ==
  {"success", "returncode", "stdout", "stderr", "signal_num", "signal_name",
   "is_signal_kill"}

\* C4: for every outcome the call returns a result record that contains all
\* of the keys success, returncode, stdout, stderr, signal_num, signal_name
\* and is_signal_kill.
C4_ResultHasAllKeys ==
  rs_pc = "returned" =>
    ~IsNone(rs_result) /\ ResultKeys \subseteq DOMAIN Val(rs_result)

\* C5: worker nesting depth never exceeds one: called inside a process that
\* is itself an isolated worker, run_subprocess_safe creates no further
\* worker process and no pipe.
C5_NoNestedWorker ==
  /\ worker_depth <= 1
  /\ caller # "main" => process_obj = "None" /\ parent_conn = "None"

\* C6: on the isolated-worker path both ends of the pipe the call created are
\* closed in the caller when the call returns, on every exit path.
C6_BothPipeEndsClosed ==
  rs_pc = "returned" => parent_conn # "open" /\ child_conn # "open"

\* The command ended by exiting with a status above 0 (a command killed by a
\* signal has a negative return code), and the call returned that status.
OwnNonZeroExitReturned ==
  /\ rs_pc = "returned"
  /\ cmd.kind = "exits" /\ cmd.rc > 0 /\ cmd_state = "exited"
  /\ ~IsNone(rs_result)
  /\ "returncode" \in DOMAIN Val(rs_result)
  /\ Val(rs_result).returncode = Some(cmd.rc)

\* C16: for every command that exits on its own with a non-zero status the
\* call returns success = True, that status as returncode, and
\* is_signal_kill = False: an ordinary non-zero exit is never reported as a
\* signal kill.
C16_NonZeroExitIsNoSignalKill ==
  OwnNonZeroExitReturned =>
    /\ Val(rs_result).success
    /\ Val(rs_result).is_signal_kill = FALSE

\* =================================================================
\* Claims about AudioAnalyzer.analyze
\* =================================================================

StageOrder == <<"acquire", "decode", "silence", "quality", "errors">>
IsPrefix(s, t) == Len(s) <= Len(t) /\ SubSeq(t, 1, Len(s)) = s

\* C7: the stages start in the order acquire, decode, analyze; decode is not
\* started unless acquire returned a file, no analyzer pass is started
\* unless decode returned a buffer, and after a failure of acquire or decode
\* no later stage has run when the call returns.
C7_StageOrder ==
  /\ IsPrefix(stages, StageOrder)
  /\ Len(stages) >= 2 \/ a_pc \in {"ld_find", "ld_parse"}
       => ~IsNone(audio_file)
  /\ Len(stages) >= 3 \/ a_pc \in PassPcs \/ passes_done # {}
       => ~IsNone(audio_data)
  /\ a_pc = "done" /\ IsNone(audio_file) =>
       stages = <<"acquire">> /\ passes_done = {}
  /\ a_pc = "done" /\ ~IsNone(audio_file) /\ IsNone(audio_data) =>
       stages = <<"acquire", "decode">> /\ passes_done = {}

\* C7's case: the download succeeded, the conversion command exited with a
\* non-zero code, and analyze returned after the decode stage.
C7_Witness ==
  /\ a_pc = "done"
  /\ stages = <<"acquire", "decode">>
  /\ run_outcome.kind = "returned"
  /\ run_outcome.returncode \notin {None, Some(0)}

SectionsAtDefault(res, th) ==
  /\ res.silence_detection = DefaultSilence(th)
  /\ res.error_detection = DefaultErrors
  /\ res.audio_quality = DefaultQuality

\* C8: when acquire fails the returned record's error is exactly "Failed to
\* download audio sample"; when decode fails it is exactly "Failed to load
\* audio data"; in both cases the three sub-sections hold their defaults.
C8_CanonicalErrors ==
  a_pc = "done" =>
    /\ IsNone(audio_file) =>
         /\ "error" \in DOMAIN Val(result)
         /\ Val(result).error = "Failed to download audio sample"
         /\ SectionsAtDefault(Val(result), silence_threshold_db)
    /\ ~IsNone(audio_file) /\ IsNone(audio_data) =>
         /\ "error" \in DOMAIN Val(result)
         /\ Val(result).error = "Failed to load audio data"
         /\ SectionsAtDefault(Val(result), silence_threshold_db)

\* C8's case for decode: the conversion exited 0 with output that cannot be
\* parsed, and analyze returned the load error.
C8_Witness ==
  /\ a_pc = "done"
  /\ ~IsNone(audio_file)
  /\ run_outcome.kind = "returned"
  /\ run_outcome.returncode = Some(0)
  /\ run_outcome.stdout = "torn"
  /\ Val(result).error = "Failed to load audio data"

AllPasses == {"silence", "quality", "errors"}

\* C9: in every record analyze returns, error is present only if the
\* pipeline failed before any analyzer pass ran: with error present no
\* sub-section differs from its default, and with all three passes
\* completed error is absent.
C9_ErrorOnlyBeforeAnalysis ==
  a_pc = "done" =>
    /\ "error" \in DOMAIN Val(result) =>
         SectionsAtDefault(Val(result), silence_threshold_db)
    /\ passes_done = AllPasses => "error" \notin DOMAIN Val(result)

AnalysisKeys ==
  {"sample_duration_seconds", "silence_detection", "error_detection",
   "audio_quality"}

\* C10: analyze never propagates an exception when ffmpeg is missing, the
\* download command fails, times out or crashes, the decode command fails
\* or gives unparsable output, or an analyzer pass raises; it returns a
\* result record.
C10_NeverRaises ==
  /\ a_pc # "raised"
  /\ a_pc = "done" =>
       ~IsNone(result) /\ AnalysisKeys \subseteq DOMAIN Val(result)

\* C10's case: the download worker could not deliver a result (an Exception
\* other than TimeoutExpired) and analyze returned a record.
C10_Witness ==
  /\ a_pc = "done"
  /\ run_outcome.kind = "Exception"
  /\ IsNone(audio_file)
  /\ ~IsNone(result)

\* C11: every record analyze returns has the same fields on every path:
\* sample_duration_seconds; silence_detection with its four fields;
\* error_detection with its three fields; audio_quality with
\* average_volume_db, peak_volume_db, dynamic_range_db, clipping_detected and
\* clipping_percentage.
C11_SameFieldsOnEveryPath ==
  a_pc = "done" =>
    /\ AnalysisKeys \subseteq DOMAIN Val(result)
    /\ DOMAIN Val(result).silence_detection =
         {"silence_detected", "silence_percentage", "silence_periods",
          "threshold_db"}
    /\ DOMAIN Val(result).error_detection =
         {"error_detected", "error_messages", "repetitive_pattern_detected"}
    /\ DOMAIN Val(result).audio_quality =
         {"average_volume_db", "peak_volume_db", "dynamic_range_db",
          "clipping_detected", "clipping_percentage"}

Strategies == <<"stream_copy", "partial_reencode", "transcode">>
StrategiesTried == [i \in 1..Len(attempts) |-> attempts[i].strategy]

\* C12: acquire tries the strategies stream-copy, partial re-encode, full
\* transcode in this order, each only after the one before it failed and
\* none after a success, and returns failure only after all three have been
\* attempted (ffmpeg being present).
C12_StrategyLadder ==
  /\ IsPrefix(StrategiesTried, Strategies)
  /\ a_pc = "done" /\ IsNone(audio_file) /\ temp_created > 0 =>
       Len(attempts) = Len(Strategies)

\* what a return of _download_audio_sample must satisfy
DownloadReturnsRight ==
  a_pc \in {"dl_check", "dl_except"} =>
    /\ ~IsNone(audio_file') <=>
         /\ run_outcome.kind = "returned"
         /\ run_outcome.returncode = Some(0)
         /\ temp_exists /\ temp_size > 0
    /\ IsNone(audio_file') => ~temp_exists'

C14_AttemptTimeout ==
  \A i \in 1..Len(attempts) :
    attempts[i].timeout = 2 * sample_duration + 30

\* =================================================================
\* Claims about functions called on their own
\* =================================================================

ClaimedSignalName(n) ==
  IF n = 1 THEN "SIGHUP"
  ELSE IF n = 2 THEN "SIGINT"
  ELSE IF n = 3 THEN "SIGQUIT"
  ELSE IF n = 6 THEN "SIGABRT"
  ELSE IF n = 9 THEN "SIGKILL"
  ELSE IF n = 11 THEN "SIGSEGV"
  ELSE IF n = 15 THEN "SIGTERM"
  ELSE "SIG" \o ToString(n)

ClaimedSignal(n) ==
  [signal_num |-> Some(n), signal_name |-> Some(ClaimedSignalName(n)),
   is_signal_kill |-> TRUE]

\* C15: _classify_returncode gives no signal for None and for 0 <= r < 128,
\* signal -r for r < 0 and signal r - 128 for r >= 128, with is_signal_kill
\* True and the tabulated or generic name in both signal cases;
\* is_signal_kill is True exactly when signal_num is not None.
C15_ClassifyReturncode ==
  call.fn = "_classify_returncode" =>
    /\ ret.is_signal_kill <=> ~IsNone(ret.signal_num)
    /\ ret = IF IsNone(call.returncode) THEN
               [signal_num |-> None, signal_name |-> None,
                is_signal_kill |-> FALSE]
             ELSE IF Val(call.returncode) < 0 THEN
               ClaimedSignal(-Val(call.returncode))
             ELSE IF Val(call.returncode) >= 128 THEN
               ClaimedSignal(Val(call.returncode) - 128)
             ELSE [signal_num |-> None, signal_name |-> None,
                   is_signal_kill |-> FALSE]

\* C15's case: return code 139 is classified as SIGSEGV.
C15_Witness ==
  /\ call.fn = "_classify_returncode"
  /\ call.returncode = Some(139)
  /\ ret.signal_name = Some("SIGSEGV")
  /\ ret.is_signal_kill

\* the decode command did not deliver parsable, non-empty output with exit
\* code 0
DecodeFailed(o) ==
  \/ o.kind # "returned"
  \/ o.returncode # Some(0)
  \/ o.odd_byte
  \/ Len(o.raw) = 0

\* C17: _load_audio_raw returns (None, 0, 0) and raises nothing whenever the
\* decode command exits non-zero, times out, returns no result, produces
\* empty output or output that cannot be parsed as int16 samples; it returns
\* a buffer only when the exit code is 0 and the output is non-empty, and
\* then with sample rate 44100 and channel count 1.
C17_LoadFailsCleanly ==
  call.fn = "_load_audio_raw" =>
    /\ "raised" \notin DOMAIN ret
    /\ DecodeFailed(call.outcome) =>
         ret = [samples |-> None, sample_rate |-> 0, channels |-> 0]
    /\ ~DecodeFailed(call.outcome) =>
         /\ ~IsNone(ret.samples)
         /\ ret.sample_rate = 44100
         /\ ret.channels = 1

\* C17's case: exit code 0 with samples followed by a stray byte, which
\* cannot be parsed; the failure value is returned.
C17_Witness ==
  /\ call.fn = "_load_audio_raw"
  /\ call.outcome.kind = "returned"
  /\ call.outcome.returncode = Some(0)
  /\ call.outcome.odd_byte
  /\ Len(call.outcome.raw) = 2
  /\ IsNone(ret.samples)

\* C18: for every raw sample sequence of length n >= 1 the mono buffer has
\* length ceil(n/2) and its i-th element is (raw[2i] + raw[2i+1]) / 2 (here
\* held doubled and counted from 1), a missing final right sample counting
\* as 0; an odd n, n = 1 included, never causes failure.
C18_DownmixAverages ==
  /\ call.fn = "_load_audio_raw"
  /\ ~DecodeFailed(call.outcome)
  => LET raw == call.outcome.raw
         n == Len(raw)
     IN /\ ~IsNone(ret.samples)
        /\ Len(Val(ret.samples)) = (n + 1) \div 2
        /\ \A i \in 1..((n + 1) \div 2) :
             Val(ret.samples)[i] =
               raw[2 * i - 1] + (IF 2 * i <= n THEN raw[2 * i] ELSE 0)

\* The windows of the call's buffer, counted from 1; window i is silent when
\* its rms_db is below the threshold.
SilentWindow(i) == call.buf.levels[i] < call.threshold_db
RunStarts ==
  {i \in 1..Len(call.buf.levels) :
     SilentWindow(i) /\ (i = 1 \/ ~SilentWindow(i - 1))}
\* the first non-silent window after window i, or 0 when there is none
FirstLoudAfter(i) ==
  LET later == {j \in (i + 1)..Len(call.buf.levels) : ~SilentWindow(j)}
  IN IF later = {} THEN 0
     ELSE CHOOSE j \in later : \A k \in later : j <= k
\* the period the claim gives the maximal run that starts at window i, in
\* samples
ClaimedPeriod(i) ==
  LET w == WindowSize(SampleRate)
      start == (i - 1) * w
      end == IF FirstLoudAfter(i) = 0 THEN NumSamples(call.buf)
             ELSE (FirstLoudAfter(i) - 1) * w
  IN [start |-> start, end |-> Some(end), duration |-> end - start]

\* C19: _detect_silence produces exactly one period per maximal run of
\* consecutive silent windows, from the start of the run's first window to
\* the start of the first non-silent window after it (or the buffer end),
\* with duration end - start.
C19_OnePeriodPerRun ==
  call.fn = "_detect_silence" /\ Len(call.buf.levels) > 0 =>
    /\ Len(ret.periods) = Cardinality(RunStarts)
    /\ {ret.periods[k] : k \in 1..Len(ret.periods)} =
         {ClaimedPeriod(i) : i \in RunStarts}

\* C20: for a buffer in which every sample is zero and whose duration is at
\* least silence_min_duration, _detect_silence reports silence_detected =
\* True and silence_percentage = 100.0.
C20_ZeroBufferIsSilent ==
  /\ call.fn = "_detect_silence"
  /\ \A i \in 1..Len(call.buf.levels) : call.buf.levels[i] = NegInf
  /\ NumSamples(call.buf) >= 1
  /\ NumSamples(call.buf) >= call.silence_min_duration
  => /\ ret.section.silence_detected
     /\ ret.section.silence_percentage = 100 * 100

\* the silent windows of the call's buffer
SilentWindows == {i \in 1..Len(call.buf.levels) : SilentWindow(i)}

\* C21: for every buffer and every valid configuration the reported
\* silence_percentage lies in [0, 100] (held in hundredths): the samples
\* counted as silent never exceed the samples of the buffer.
C21_PercentageInRange ==
  call.fn = "_detect_silence" =>
    /\ ret.section.silence_percentage >= 0
    /\ ret.section.silence_percentage <= 100 * 100

\* C21's case at the upper end: every window is silent and no sample
\* follows the last window.
C21_Witness ==
  /\ call.fn = "_detect_silence"
  /\ Len(call.buf.levels) = MaxWindows
  /\ SilentWindows = 1..MaxWindows
  /\ call.buf.tail = 0
  /\ ret.section.silence_percentage = 100 * 100

\* C22: silence_percentage is 100 * (silent windows * window size) / total
\* samples (reported rounded to two decimals: the nearest hundredth),
\* counting every silent window whether or not its period passes the
\* minimum-duration filter.
C22_PercentageCountsAllWindows ==
  call.fn = "_detect_silence" /\ Len(call.buf.levels) > 0 =>
    LET exact == 100 * 100 * Cardinality(SilentWindows)
                   * WindowSize(SampleRate)
        total == NumSamples(call.buf)
        diff == ret.section.silence_percentage * total - exact
    IN 2 * diff <= total /\ 2 * diff > -total

\* C22's case: the percentage is positive while no period is reported and
\* silence_detected is False.
C22_Witness ==
  /\ call.fn = "_detect_silence"
  /\ Cardinality(SilentWindows) = 1
  /\ ret.section.silence_percentage > 0
  /\ ret.section.silence_periods = <<>>
  /\ ~ret.section.silence_detected

\* the periods of ret.periods that the claimed filter keeps, as reported
ClaimedReported ==
  LET keep(p) == p.duration >= call.silence_min_duration
      kept == SelectSeq(ret.periods, keep)
  IN [k \in 1..Len(kept) |->
        [start_seconds |-> kept[k].start, end_seconds |-> Val(kept[k].end),
         duration_seconds |-> kept[k].duration]]

\* C23: the reported silence_periods list holds exactly the detected periods
\* whose duration is >= silence_min_duration, and silence_detected is True
\* exactly when that list is non-empty.
C23_ReportedPeriodsFiltered ==
  call.fn = "_detect_silence" =>
    /\ ret.section.silence_periods = ClaimedReported
    /\ ret.section.silence_detected <=> ret.section.silence_periods # <<>>

\* C23's case: a period of exactly the minimum duration is reported, and a
\* shorter one of the same buffer is not.
C23_Witness ==
  /\ call.fn = "_detect_silence"
  /\ Len(ret.periods) > Len(ret.section.silence_periods)
  /\ \E k \in 1..Len(ret.section.silence_periods) :
       ret.section.silence_periods[k].duration_seconds =
         call.silence_min_duration
  /\ ret.section.silence_detected

\* each period ends no earlier than it starts, and starts after the start
\* and no earlier than the end of the one before it
WellOrdered(starts, ends) ==
  /\ \A k \in 1..Len(starts) : ends[k] >= starts[k]
  /\ \A k \in 2..Len(starts) :
       starts[k] > starts[k - 1] /\ starts[k] >= ends[k - 1]

ClaimedClipped ==
  SumOver([v \in DOMAIN call.buf |->
             IF 100 * (IF v < 0 THEN -v ELSE v) >= 99 * 32768
             THEN call.buf[v] ELSE 0],
          DOMAIN call.buf)
ClaimedLen == SumOver(call.buf, DOMAIN call.buf)

\* C25: for every non-empty buffer clipping_detected is True exactly when
\* strictly more than 1% of the samples have absolute value >= 0.99 * 32768
\* (exactly 1% is not flagged), and a buffer whose samples all have
\* absolute value 32767 is flagged with clipping_percentage 100.
C25_ClippingAboveOnePercent ==
  call.fn = "_analyze_quality" /\ ClaimedLen > 0 =>
    /\ ret.clipping_detected <=> 100 * ClaimedClipped > ClaimedLen
    /\ call.buf[-32767] = ClaimedLen =>
         ret.clipping_detected /\ ret.clipping_percentage = 100 * 100

\* C25's case at the boundary: 2 of 200 samples are clipped, exactly 1%, and
\* the buffer is not flagged.
C25_Witness ==
  /\ call.fn = "_analyze_quality"
  /\ ClaimedClipped = 2
  /\ ClaimedLen = 200
  /\ ~ret.clipping_detected
  /\ ret.clipping_percentage = 100

\* The number of full one-second windows of the buffer of the call.
FullSeconds == Len(call.samples) \div call.sample_rate

\* C26: _detect_errors leaves error_detection at its defaults when the
\* buffer has fewer than two full one-second windows; for a constant-valued
\* buffer of at least two full windows it sets repetitive_pattern_detected
\* and error_detected and appends exactly one message; and
\* repetitive_pattern_detected always implies error_detected and a non-empty
\* error_messages.
C26_RepetitionDetection ==
  call.fn = "_detect_errors" =>
    /\ call.sample_rate > 0 /\ FullSeconds < 2 =>
         ret = [error_detected |-> FALSE, error_messages |-> <<>>,
                repetitive_pattern_detected |-> FALSE]
    /\ /\ call.sample_rate > 0 /\ FullSeconds >= 2
       /\ \A k \in DOMAIN call.samples : call.samples[k] = call.samples[1]
       => /\ ret.repetitive_pattern_detected
          /\ ret.error_detected
          /\ ret.error_messages = <<RepetitiveMessage>>
    /\ ret.repetitive_pattern_detected =>
         ret.error_detected /\ ret.error_messages # <<>>

\* C26's case: a constant buffer of two full windows and a remainder is
\* flagged, with one message.
C26_Witness ==
  /\ call.fn = "_detect_errors"
  /\ call.sample_rate = 3
  /\ call.samples = <<4, 4, 4, 4, 4, 4, 4>>
  /\ ret.repetitive_pattern_detected
  /\ Len(ret.error_messages) = 1

\* C27: the three passes commute: run on a fresh record in any of the six
\* orders they leave the record analyze's own order leaves, each section
\* being what its pass alone computes from the fresh section.
C27_PassesCommute ==
  call.fn = "passes" =>
    /\ ret = RunPasses(AnalyzeOrder, call.buffer, FreshResult)
    /\ \A pass \in PassNames :
         LET alone == ApplyPass(pass, call.buffer, FreshResult)
         IN CASE pass = "_detect_silence" ->
                   ret.silence_detection = alone.silence_detection
              [] pass = "_analyze_quality" ->
                   ret.audio_quality = alone.audio_quality
              [] pass = "_detect_errors" ->
                   ret.error_detection = alone.error_detection
    /\ ret.sample_duration_seconds = FreshResult.sample_duration_seconds

\* C27's case: the passes ran in the reverse of analyze's order and each
\* of them changed its section.
C27_Witness ==
  /\ call.fn = "passes"
  /\ call.order = <<"_detect_errors", "_analyze_quality", "_detect_silence">>
  /\ ret.silence_detection.silence_detected
  /\ ret.audio_quality.clipping_detected
  /\ ret.error_detection.error_detected

\* C28: a pass applied a second time with the same buffer and the same
\* record leaves the record as it was after the first application; in
\* particular error_messages does not grow.
C28_PassIdempotent ==
  call.fn = "pass_twice" => ret.twice = ret.once

\* =================================================================
\* Claims about run_process_with_queue
\* =================================================================

\* The worker ended by itself with exit code 0 while join was waiting,
\* having put the dict r.
ExitedCleanlyWith(r) ==
  /\ pq_worker.state = "exited"
  /\ pq_worker.exitcode = 0
  /\ pq_worker.in_time
  /\ pq_worker.put
  /\ pq_target.puts = Some(r)

\* C30: run_process_with_queue returns (True, r) exactly when the worker
\* exited with exit code 0 within join_timeout and put a result r whose
\* returncode is None or 0, r being the very dict the worker put; in every
\* other case the first element is False.
C30_TrueExactlyOnCleanResult ==
  pq_pc = "done" =>
    /\ pq_ret[1] <=>
         \E r \in PqResults :
           /\ ExitedCleanlyWith(r)
           /\ Get(r, "returncode") \in {None, Some(0)}
    /\ pq_ret[1] => pq_ret[2] = pq_target.puts

\* C30's case: a call returned (True, r) with the dict r of the worker.
C30_Witness ==
  /\ pq_pc = "done"
  /\ pq_ret[1]
  /\ pq_ret[2] = Some([returncode |-> Some(0), stdout |-> Some("out"),
                       stderr |-> Some("")])
  /\ pq_worker.exitcode = 0

\* C31: run_process_with_queue returns (False, None) whenever the worker
\* timed out, crashed (ended with a non-zero exit code), or left the queue
\* empty.
C31_FailureReturnsNone ==
  /\ pq_pc = "done"
  /\ pq_target # None
  /\ \/ ~pq_worker.in_time
     \/ pq_worker.exitcode # 0
     \/ ~pq_worker.put
  => pq_ret = <<FALSE, None>>

\* =================================================================
\* Claims about concurrent analyze calls
\* =================================================================

C32_LaunchesOnlyInFlaggedHelper ==
  platform_system = "Darwin" =>
    \A l \in sc_launches : ~l.in_main /\ l.helper

\* =================================================================
\* Claims about the start method initialisation
\* =================================================================

\* C36: once a first call of a copy of ensure_spawn_method has returned,
\* the copy's _mp_start_method_set is True, on every path, and no later
\* call reads or changes the start method.
C36_OneTimeInitialisation ==
  /\ \A copy \in Copies : sm_returned[copy] => sm_flag[copy]
  /\ ~sm_later

\* C33: under fair scheduling every call of run_subprocess_safe eventually
\* returns, whatever the command and the worker do: a command that never
\* exits, a worker that does not die of terminate().
C33_EveryCallReturns == (rs_pc # "idle") ~> (rs_pc = "returned")
\* a call returned after the worker outlived the wait and the terminate()
\* grace period and had to be killed, its command never exiting
C33_Witness ==
  /\ rs_pc = "returned"
  /\ signals = <<"terminate", "kill">>
  /\ cmd.kind = "hangs"
  /\ cmd_state = "running"

\* C34: an AudioAnalyzer exists only with sample_duration in [1, 300],
\* silence_threshold_db in [-100, 0] and silence_min_duration > 0; every
\* other argument is rejected with ValueError by the constructor.
C34_ConstructedOnlyInRange ==
  call.fn = "AudioAnalyzer" =>
    /\ ret.raised \in {"", "ValueError"}
    /\ ret.raised = "" <=>
         /\ call.sample_duration \in 1..300
         /\ call.silence_threshold_db \in (-100)..0
         /\ call.silence_min_duration > 0

\* C39: phase 3 constructs the analyzer with exactly the --silence-threshold
\* and the --sample-duration given, for every value that passes validation
\* (0 dB included); the configured default is used only when the option is
\* absent.
C39_SuppliedValuesReachAnalyzer ==
  /\ call.fn = "main"
  /\ ret.raised = ""
  /\ ~IsNone(ret.analyzer)
  => /\ Val(ret.analyzer).raised = ""
     /\ Val(ret.analyzer).silence_threshold_db =
          IF IsNone(call.silence_threshold) THEN call.cfg_threshold
          ELSE Val(call.silence_threshold)
     /\ Val(ret.analyzer).sample_duration =
          IF IsNone(call.sample_duration) THEN call.cfg_duration
          ELSE Val(call.sample_duration)

\* C40: for every exit code of the worker, the signal number and the signal
\* name in the failure info of run_process_with_queue and of
\* run_process_with_pipe are the signal_num and signal_name that
\* _classify_returncode gives for that code.
C40_FailureInfoAgreesWithClassify ==
  call.fn = "failure_info" =>
    /\ ret.signal = _classify_returncode(Some(call.exitcode)).signal_num
    /\ ret.signal_name = _classify_returncode(Some(call.exitcode)).signal_name

\* C35: on the isolated-worker path the caller signals the worker only when
\* it is still alive at the end of a wait: terminate() first, when the wait
\* for the result has expired (or in the finally block), and kill() only
\* after terminate(), when the grace period has expired as well. kill() never
\* comes before terminate(), and a worker that has exited gets neither.
C35_Send ==
  signals' # signals =>
    /\ is_alive
    /\ \/ /\ signals' = Append(signals, "terminate")
          /\ \/ rs_pc = "join" /\ now >= join_deadline
             \/ rs_pc = "finally"
       \/ /\ signals' = Append(signals, "kill")
          /\ signals # <<>>
          /\ signals[Len(signals)] = "terminate"
          /\ rs_pc \in {"join_term", "fin_term"}
          /\ now >= join_deadline
C37_WorkerNeverBlockedSending ==
  ~(rs_pc = "join" /\ w_state = "sending" /\ SendBlocks)

\* C38: with stdout_to_file=True the result of every call, on every path,
\* the error paths of the isolated-worker path included, has the key
\* stdout_path, and it names the temporary file of the call.
C38_StdoutPathOnEveryPath ==
  rs_pc = "returned" /\ stdout_to_file =>
    /\ "stdout_path" \in DOMAIN Val(rs_result)
    /\ Val(rs_result).stdout_path = stdout_file_path

====
